---------------------------- MODULE Spec2Model ----------------------------
(***************************************************************************)
(* A model of the WhatsApp bridge: the queue consumer of server2.ts and    *)
(* the dispatcher sendWhatsAppMessage of bas64.handler.ts.                 *)
(*                                                                         *)
(* JavaScript strings are sequences of characters; a character is a        *)
(* one-element TLA+ string, or the name of a character that has no         *)
(* printable form ("NUL", "TAB", "SP", "BOM", ...).  An optional field of  *)
(* a job is a record [def, val]: def = FALSE is JavaScript's undefined.    *)
(***************************************************************************)
EXTENDS Integers, Sequences, FiniteSets, TLC

(***************************************************************************)
(* Bounds of the model.                                                    *)
(***************************************************************************)
MaxMsgs == 1
MaxDeliveries == 2
MaxConns == 2
MaxReady == 2
MaxInits == 1
MaxText == 3

(***************************************************************************)
(* Characters and strings.                                                 *)
(***************************************************************************)
\* [\u0000-\u0008\u000B\u000C\u000E-\u001F\u007F-\u009F] of sanitizeMessage
ControlChars == {"NUL", "BS", "VT", "FF", "ESC", "DEL", "NEL"}

\* \uFEFF
BOM == "BOM"

\* what String.prototype.trim removes at both ends
TrimChars == {"TAB", "LF", "VT", "FF", "CR", "SP", "NBSP", "BOM"}

Undef == [def |-> FALSE, val |-> <<>>]

Str(s) == [def |-> TRUE, val |-> s]

\* JavaScript truthiness of an optional string
Truthy(o) == o.def /\ o.val # <<>>

\* a || b on optional strings
OrElse(a, b) == IF Truthy(a) THEN a ELSE b

\* String.prototype.includes
Includes(s, sub) ==
    \E i \in 1..(Len(s) - Len(sub) + 1) : SubSeq(s, i, i + Len(sub) - 1) = sub

RECURSIVE Filter(_, _)
\* String.prototype.replace(/[set]/g, "")
Filter(s, set) ==
    IF s = <<>> THEN <<>>
    ELSE IF Head(s) \in set THEN Filter(Tail(s), set)
         ELSE <<Head(s)>> \o Filter(Tail(s), set)

RECURSIVE TrimStart(_)
TrimStart(s) ==
    IF s # <<>> /\ Head(s) \in TrimChars THEN TrimStart(Tail(s)) ELSE s

RECURSIVE TrimEnd(_)
TrimEnd(s) ==
    IF s # <<>> /\ s[Len(s)] \in TrimChars
    THEN TrimEnd(SubSeq(s, 1, Len(s) - 1)) ELSE s

\* String.prototype.trim
Trim(s) == TrimEnd(TrimStart(s))

RECURSIVE Split(_, _)
\* String.prototype.split on a one-character separator
Split(s, sep) ==
    IF \A i \in 1..Len(s) : s[i] # sep THEN <<s>>
    ELSE LET k == CHOOSE i \in 1..Len(s) :
                      s[i] = sep /\ \A j \in 1..(i - 1) : s[j] # sep
         IN <<SubSeq(s, 1, k - 1)>> \o Split(SubSeq(s, k + 1, Len(s)), sep)

(***************************************************************************)
(* server2.ts: sanitizeMessage and validateMessageData.                    *)
(***************************************************************************)
\* an optional string in, a string out
\* sanitizeMessage with the trim before the removals: C16_Idempotent does
\* not hold of it
sanitizeTrimFirst(message) ==
    IF ~Truthy(message) THEN <<>>
    ELSE Filter(Filter(Trim(message.val), ControlChars), {BOM})

\* sanitizeMessage without the removal of the byte-order mark:
\* C17_NoControlButWhitespace does not hold of it
sanitizeKeepBOM(message) ==
    IF ~Truthy(message) THEN <<>>
    ELSE Trim(Filter(message.val, ControlChars))

sanitizeMessage(message) ==
    IF ~Truthy(message) THEN <<>>
    ELSE Trim(Filter(Filter(message.val, ControlChars), {BOM}))

\* !messageData.to: undefined, or the empty string ([] and a number are truthy)
ToFalsy(to) == to.kind = "absent" \/ (to.kind = "string" /\ to.str = <<>>)

\* a validator that lets every job through: C9_AtLeastOne does not hold of it
validateEverything(messageData) == TRUE

validateMessageData(messageData) ==
    IF ToFalsy(messageData.to) THEN FALSE
    ELSE IF ~Truthy(messageData.message) /\ ~Truthy(messageData.base64Data)
            /\ ~Truthy(messageData.mediaUrl) THEN FALSE
    ELSE TRUE

(***************************************************************************)
(* bas64.handler.ts: parseBase64Image, isValidBase64,                      *)
(* getExtensionFromMimetype.                                               *)
(***************************************************************************)
UpperCase ==
    <<"A", "B", "C", "D", "E", "F", "G", "H", "I", "J", "K", "L", "M", "N", "O", "P", "Q", "R", "S", "T", "U", "V", "W", "X", "Y", "Z">>

LowerCase ==
    <<"a", "b", "c", "d", "e", "f", "g", "h", "i", "j", "k", "l", "m", "n", "o", "p", "q", "r", "s", "t", "u", "v", "w", "x", "y", "z">>

Digits == {"0", "1", "2", "3", "4", "5", "6", "7", "8", "9"}

\* [A-Za-z0-9+/]
Base64Chars ==
    {UpperCase[i] : i \in 1..26} \cup {LowerCase[i] : i \in 1..26}
        \cup Digits \cup {"+", "/"}

\* String.prototype.toLowerCase
toLowerCase(s) ==
    [i \in 1..Len(s) |->
        IF \E k \in 1..26 : UpperCase[k] = s[i]
        THEN LowerCase[CHOOSE k \in 1..26 : UpperCase[k] = s[i]]
        ELSE s[i]]

\* /^[A-Za-z0-9+/]*={0,2}$/.test(str)
base64Regex(str) ==
    \E k \in 0..2 :
        /\ k <= Len(str)
        /\ \A i \in 1..(Len(str) - k) : str[i] \in Base64Chars
        /\ \A i \in (Len(str) - k + 1)..Len(str) : str[i] = "="

\* isValidBase64 with the decode before the test: C11_AlphabetBeforeDecode
\* does not hold of it
isValidBase64DecodeFirst(str) == [result |-> base64Regex(str), decodes |-> 1]

\* lines 55-63: the regex test, and Buffer.from(str, "base64") (which never
\* throws) only when the test passed; decodes counts the calls of Buffer.from
isValidBase64Run(str) ==
    IF ~base64Regex(str) THEN [result |-> FALSE, decodes |-> 0]
    ELSE [result |-> TRUE, decodes |-> 1]

isValidBase64(str) == isValidBase64Run(str).result

\* Buffer.from(data, "base64").length for a string that passed isValidBase64
DecodedLength(data) ==
    (3 * Cardinality({i \in 1..Len(data) : data[i] \in Base64Chars})) \div 4

mimetypeMap ==
    {       [key |-> <<"i", "m", "a", "g", "e", "/", "j", "p", "e", "g">>,
       ext |-> <<"j", "p", "g">>],
      [key |-> <<"i", "m", "a", "g", "e", "/", "j", "p", "g">>,
       ext |-> <<"j", "p", "g">>],
      [key |-> <<"i", "m", "a", "g", "e", "/", "p", "n", "g">>,
       ext |-> <<"p", "n", "g">>],
      [key |-> <<"i", "m", "a", "g", "e", "/", "g", "i", "f">>,
       ext |-> <<"g", "i", "f">>],
      [key |-> <<"i", "m", "a", "g", "e", "/", "w", "e", "b", "p">>,
       ext |-> <<"w", "e", "b", "p">>],
      [key |-> <<"i", "m", "a", "g", "e", "/", "b", "m", "p">>,
       ext |-> <<"b", "m", "p">>],
      [key |-> <<"i", "m", "a", "g", "e", "/", "s", "v", "g", "+", "x", "m", "l">>,
       ext |-> <<"s", "v", "g">>],
      [key |-> <<"i", "m", "a", "g", "e", "/", "t", "i", "f", "f">>,
       ext |-> <<"t", "i", "f", "f">>],
      [key |-> <<"v", "i", "d", "e", "o", "/", "m", "p", "4">>,
       ext |-> <<"m", "p", "4">>],
      [key |-> <<"v", "i", "d", "e", "o", "/", "a", "v", "i">>,
       ext |-> <<"a", "v", "i">>],
      [key |-> <<"v", "i", "d", "e", "o", "/", "m", "o", "v">>,
       ext |-> <<"m", "o", "v">>],
      [key |-> <<"a", "u", "d", "i", "o", "/", "m", "p", "3">>,
       ext |-> <<"m", "p", "3">>],
      [key |-> <<"a", "u", "d", "i", "o", "/", "w", "a", "v">>,
       ext |-> <<"w", "a", "v">>],
      [key |-> <<"a", "u", "d", "i", "o", "/", "o", "g", "g">>,
       ext |-> <<"o", "g", "g">>],
      [key |-> <<"a", "p", "p", "l", "i", "c", "a", "t", "i", "o", "n", "/", "p", "d", "f">>,
       ext |-> <<"p", "d", "f">>],
      [key |-> <<"a", "p", "p", "l", "i", "c", "a", "t", "i", "o", "n", "/", "m", "s", "w", "o", "r", "d">>,
       ext |-> <<"d", "o", "c">>],
      [key |-> <<"a", "p", "p", "l", "i", "c", "a", "t", "i", "o", "n", "/", "v", "n", "d", ".", "o", "p", "e", "n", "x", "m", "l", "f", "o", "r", "m", "a", "t", "s", "-", "o", "f", "f", "i", "c", "e", "d", "o", "c", "u", "m", "e", "n", "t", ".", "w", "o", "r", "d", "p", "r", "o", "c", "e", "s", "s", "i", "n", "g", "m", "l", ".", "d", "o", "c", "u", "m", "e", "n", "t">>,
       ext |-> <<"d", "o", "c", "x">>] }

\* the lower-case keys every object literal inherits from Object.prototype
InheritedKeys ==
    { <<"c", "o", "n", "s", "t", "r", "u", "c", "t", "o", "r">>,
      <<"_", "_", "p", "r", "o", "t", "o", "_", "_">> }

\* mimetypeMap[mimetype.toLowerCase()] || "bin"; str = FALSE: the value found
\* is no string but an inherited member of Object.prototype
getExtensionFromMimetype(mimetype) ==
    LET key == toLowerCase(mimetype)
    IN IF \E e \in mimetypeMap : e.key = key
       THEN [str |-> TRUE, val |-> (CHOOSE e \in mimetypeMap : e.key = key).ext]
       ELSE IF key \in InheritedKeys
       THEN [str |-> FALSE, val |-> key]
       ELSE [str |-> TRUE, val |-> <<"b", "i", "n">>]

DataPrefix == <<"d", "a", "t", "a", ":">>

Base64Suffix == <<";", "b", "a", "s", "e", "6", "4">>

\* header.match(/data:([^;]+);base64/): the places where the pattern matches
MimeMatches(header) ==
    { pq \in (1..Len(header)) \X (1..Len(header)) :
        /\ pq[2] > pq[1] + 5
        /\ pq[2] + 6 <= Len(header)
        /\ SubSeq(header, pq[1], pq[1] + 4) = DataPrefix
        /\ \A j \in (pq[1] + 5)..(pq[2] - 1) : header[j] # ";"
        /\ SubSeq(header, pq[2], pq[2] + 6) = Base64Suffix }

\* the first capture group of the leftmost match
MimeOfHeader(header) ==
    LET pq == CHOOSE m \in MimeMatches(header) :
                  \A n \in MimeMatches(header) : m[1] <= n[1]
    IN SubSeq(header, pq[1] + 5, pq[2] - 1)

ImageJpeg == <<"i", "m", "a", "g", "e", "/", "j", "p", "e", "g">>

\* a parse that never reads the header: C27_MimeResolution does not hold of it
parseBase64ImageNoHeader(base64String) ==
    LET parts == Split(base64String, ",")
        two == Includes(base64String, <<",">>) /\ Len(parts) = 2
        cleanBase64 == IF two THEN parts[2] ELSE base64String
    IN IF ~isValidBase64(cleanBase64)
       THEN [ok |-> FALSE, mimetype |-> <<>>, data |-> <<>>,
             extension |-> [str |-> TRUE, val |-> <<>>],
             decodes |-> isValidBase64Run(cleanBase64).decodes]
       ELSE [ok |-> TRUE, mimetype |-> ImageJpeg, data |-> cleanBase64,
             extension |-> getExtensionFromMimetype(ImageJpeg),
             decodes |-> isValidBase64Run(cleanBase64).decodes]

\* ok = FALSE is the null result
parseBase64Image(base64String) ==
    LET parts == Split(base64String, ",")
        two == Includes(base64String, <<",">>) /\ Len(parts) = 2
        cleanBase64 == IF two THEN parts[2] ELSE base64String
        detectedMimetype ==
            IF two /\ MimeMatches(parts[1]) # {}
            THEN MimeOfHeader(parts[1]) ELSE ImageJpeg
    IN IF ~isValidBase64(cleanBase64)
       THEN [ok |-> FALSE, mimetype |-> <<>>, data |-> <<>>,
             extension |-> [str |-> TRUE, val |-> <<>>],
             decodes |-> isValidBase64Run(cleanBase64).decodes]
       ELSE [ok |-> TRUE, mimetype |-> detectedMimetype, data |-> cleanBase64,
             extension |-> getExtensionFromMimetype(detectedMimetype),
             decodes |-> isValidBase64Run(cleanBase64).decodes]

(***************************************************************************)
(* bas64.handler.ts: sendWhatsAppMessage.  The function runs without       *)
(* interruption from one await to the next.  RunFrom is that run: from     *)
(* recipient i on, up to the next call of client.sendMessage or fetch, or  *)
(* to the return of the results.                                           *)
(***************************************************************************)
CUs == <<"@", "c", ".", "u", "s">>

OctetStream == <<"a", "p", "p", "l", "i", "c", "a", "t", "i", "o", "n", "/", "o", "c", "t", "e", "t", "-", "s", "t", "r", "e", "a", "m">>

\* `image_${Date.now()}.${extension}`; "NOW" stands for the digits of the clock
DerivedFilename(extension) ==
    <<"i", "m", "a", "g", "e", "_", "NOW", ".">>
        \o (IF extension.str THEN extension.val ELSE <<"FUNCTION">>)

\* Array.isArray(to) ? to : to.split(",").map(r => r.trim())
Recipients(to) ==
    IF to.kind = "array" THEN to.arr
    ELSE LET parts == Split(to.str, ",")
         IN [k \in 1..Len(parts) |-> Trim(parts[k])]

\* recipient.includes("@c.us") ? recipient : `${recipient}@c.us`
PhoneNumber(recipient) ==
    IF Includes(recipient, CUs) THEN recipient ELSE recipient \o CUs

\* a choice of the branch by the payload alone: C26_ModeFollowsTypeAndPayload
\* does not hold of it
ModeByPayload(messageData) ==
    IF Truthy(messageData.base64Data) THEN "base64"
    ELSE IF Truthy(messageData.mediaUrl) THEN "media"
    ELSE "text"

\* the branch of the if / else if / else of lines 114, 170, 209
Mode(messageData) ==
    IF messageData.type = "base64" /\ Truthy(messageData.base64Data)
    THEN "base64"
    ELSE IF messageData.type = "media" /\ Truthy(messageData.mediaUrl)
    THEN "media"
    ELSE "text"

\* a failure entry that does not name its recipient: C1_OneResultPerRecipient
\* does not hold of it
FailureUnnamed(recipient, error) ==
    [recipient |-> <<>>, success |-> FALSE, error |-> error]

\* a failure entry marked as a success: C15_FetchFailureIsolated does not
\* hold of it
FailureMarkedSuccess(recipient, error) ==
    [recipient |-> recipient, success |-> TRUE, error |-> error]

\* error: the message of the Error caught at line 233
\*   "EmptyAfterSanitization"  Message is empty after sanitization
\*   "ParseFailed"             Failed to parse base64 image data
\*   "DecodeFailed"            Failed to decode base64 data: ...
\*   "FetchStatus"             Failed to fetch media: <status> <statusText>
\*   "FetchThrew"              what fetch or response.arrayBuffer threw
\*   "SendRejected"            what client.sendMessage rejected with
Failure(recipient, error) ==
    [recipient |-> recipient, success |-> FALSE, error |-> error]

\* a success entry marked failed: C2_Isolation does not hold of it
SuccessMarkedFailed(phoneNumber) ==
    [recipient |-> phoneNumber, success |-> FALSE, error |-> "none"]

Success(phoneNumber) ==
    [recipient |-> phoneNumber, success |-> TRUE, error |-> "none"]

\* a text send whose body is not the sanitized message: C13_TextBodySanitized
\* does not hold of it
TextSendPadded(phoneNumber, sanitizedMessage) ==
    [to |-> phoneNumber, kind |-> "text", body |-> sanitizedMessage \o <<"SP">>,
     caption |-> Undef, mimetype |-> <<>>, filename |-> <<>>]

\* the arguments of client.sendMessage(phoneNumber, sanitizedMessage, options)
TextSend(phoneNumber, sanitizedMessage) ==
    [to |-> phoneNumber, kind |-> "text", body |-> sanitizedMessage,
     caption |-> Undef, mimetype |-> <<>>, filename |-> <<>>]

\* a media send that always carries a caption field: C14_CaptionIffNonEmpty
\* does not hold of it
MediaSendCaptioned(phoneNumber, mimetype, filename, caption) ==
    [to |-> phoneNumber, kind |-> "media", body |-> <<>>,
     caption |-> Str(caption), mimetype |-> mimetype, filename |-> filename]

\* client.sendMessage(phoneNumber, media, {caption, ...options}) when the
\* caption is not empty, client.sendMessage(phoneNumber, media, options) else
MediaSend(phoneNumber, mimetype, filename, caption) ==
    [to |-> phoneNumber, kind |-> "media", body |-> <<>>,
     caption |-> IF caption # <<>> THEN Str(caption) ELSE Undef,
     mimetype |-> mimetype, filename |-> filename]

\* lines 114-169 up to the call of client.sendMessage;
\* ok = FALSE: an Error was thrown (parse failure or empty buffer);
\* decodes: the calls of Buffer.from(..., "base64") made on the way
Base64Send(messageData, phoneNumber) ==
    LET parsedImage == parseBase64Image(messageData.base64Data.val)
    IN IF ~parsedImage.ok
       THEN [ok |-> FALSE, error |-> "ParseFailed",
             decodes |-> parsedImage.decodes, send |-> TextSend(<<>>, <<>>)]
       ELSE IF DecodedLength(parsedImage.data) = 0
       THEN [ok |-> FALSE, error |-> "DecodeFailed",
             decodes |-> parsedImage.decodes + 1, send |-> TextSend(<<>>, <<>>)]
       ELSE [ok |-> TRUE, error |-> "none",
             decodes |-> parsedImage.decodes + 1,
             send |-> MediaSend(
                 phoneNumber,
                 OrElse(messageData.mimetype, Str(parsedImage.mimetype)).val,
                 OrElse(messageData.filename,
                        Str(DerivedFilename(parsedImage.extension))).val,
                 sanitizeMessage(OrElse(messageData.caption,
                                        OrElse(messageData.message, Str(<<>>)))))]

\* lines 182-208: the send that follows a fetch with response.ok
UrlSend(messageData, phoneNumber) ==
    LET parts == Split(messageData.mediaUrl.val, "/")
    IN MediaSend(
           phoneNumber, OctetStream,
           OrElse(messageData.filename,
                  OrElse(Str(parts[Len(parts)]), Str(<<"m", "e", "d", "i", "a">>))).val,
           sanitizeMessage(OrElse(messageData.caption, Str(<<>>))))

RECURSIVE RunFrom(_, _, _, _, _)
\* at = "send": client.sendMessage was called for recipient i and is awaited;
\* at = "fetch": fetch(mediaUrl) was called for recipient i and is awaited;
\* at = "returned": the loop is over and the results are returned
RunFrom(messageData, recipients, i, results, sent) ==
    IF i > Len(recipients)
    THEN [at |-> "returned", i |-> i, results |-> results, sent |-> sent]
    ELSE LET recipient == recipients[i]
             phoneNumber == PhoneNumber(recipient)
             sanitizedMessage == sanitizeMessage(messageData.message)
             b64 == Base64Send(messageData, phoneNumber)
         IN CASE Mode(messageData) = "base64" ->
                   IF b64.ok
                   THEN [at |-> "send", i |-> i, results |-> results,
                         sent |-> Append(sent, b64.send)]
                   ELSE RunFrom(messageData, recipients, i + 1,
                                Append(results, Failure(recipient, b64.error)),
                                sent)
              [] Mode(messageData) = "media" ->
                   [at |-> "fetch", i |-> i, results |-> results, sent |-> sent]
              [] OTHER ->
                   IF sanitizedMessage = <<>>
                   THEN RunFrom(messageData, recipients, i + 1,
                                Append(results,
                                       Failure(recipient,
                                               "EmptyAfterSanitization")),
                                sent)
                   ELSE [at |-> "send", i |-> i, results |-> results,
                         sent |-> Append(sent,
                                         TextSend(phoneNumber, sanitizedMessage))]

(***************************************************************************)
(* The queue messages the model draws from.                                *)
(***************************************************************************)
ToAbsent == [kind |-> "absent", str |-> <<>>, arr |-> <<>>]

\* a `to` that is neither a string nor an array, such as the number 5
ToOther == [kind |-> "other", str |-> <<>>, arr |-> <<>>]

ToStr(s) == [kind |-> "string", str |-> s, arr |-> <<>>]

ToArr(a) == [kind |-> "array", str |-> <<>>, arr |-> a]

Job(to, message, type, mediaUrl, base64Data) ==
    [parseable |-> TRUE, to |-> to, message |-> message, type |-> type,
     mediaUrl |-> mediaUrl, base64Data |-> base64Data, mimetype |-> Undef,
     filename |-> Undef, caption |-> Undef]

\* content that JSON.parse rejects
NotJson == [Job(ToAbsent, Undef, "none", Undef, Undef) EXCEPT !.parseable = FALSE]

Hi == Str(<<"h", "i">>)

Two == ToArr(<< <<"1">>, <<"2", "@", "c", ".", "u", "s">> >>)

\* the header of a data URL, without the comma
PngHeader ==
    <<"d", "a", "t", "a", ":", "i", "m", "a", "g", "e", "/", "p", "n", "g",
      ";", "b", "a", "s", "e", "6", "4">>

\* a job of type "base64"
Base64Job(to, message, caption, base64Data) ==
    [Job(to, message, "base64", Undef, Str(base64Data)) EXCEPT !.caption = caption]

ImagePng == <<"i", "m", "a", "g", "e", "/", "p", "n", "g">>

ImageJpg == <<"i", "m", "a", "g", "e", "/", "j", "p", "g">>

ApplicationPdf ==
    <<"a", "p", "p", "l", "i", "c", "a", "t", "i", "o", "n", "/", "p", "d", "f">>

\* a job of type "base64" with the optional fields mimetype and filename
MimeJob(base64Data, mimetype, filename) ==
    [Job(ToStr(<<"1">>), Undef, "base64", Undef, Str(base64Data))
        EXCEPT !.mimetype = mimetype, !.filename = filename]

JobPool ==
    << NotJson,
       Job(ToAbsent, Hi, "none", Undef, Undef),
       Job(ToStr(<<"1">>), Undef, "text", Undef, Undef),
       Job(ToOther, Hi, "none", Undef, Undef),
       Job(Two, Str(<<"SP", "h", "i", "NUL", "SP">>), "none", Undef, Undef),
       Job(ToStr(<<"1", ",", "SP", "2">>), Hi, "text", Undef, Undef),
       Job(Two, Str(<<"SP">>), "text", Undef, Undef),
       Job(ToArr(<< <<"1">> >>), Hi, "base64", Undef, Str(<<"A", "A", "A", "A">>)),
       Job(Two, Undef, "base64", Undef, Str(<<"!">>)),
       Job(Two, Undef, "media", Str(<<"u", "/", "f">>), Undef),
       Job(ToStr(<<"1">>), Hi, "media", Str(<<"u", "/", "f">>), Undef),
       Job(ToStr(<<"1">>), Hi, "text", Str(<<"u">>), Str(<<"A", "A", "A", "A">>)),
       Job(ToStr(<<"1">>), Undef, "none", Undef, Str(<<"A", "A", "A", "A">>)),
       Job(Two, Str(<<>>), "base64", Str(<<>>), Str(<<>>)),
       Job(ToStr(<<"1", ",", "2", "@", "c", ".", "u", "s", ",", "3">>), Hi, "text",
           Undef, Undef),
       Job(Two, Undef, "base64", Undef,
           Str(<<"d", "a", "t", "a", ":", "i", "m", "a", "g", "e", "/", "p", "n", "g",
                 ";", "b", "a", "s", "e", "6", "4", ",", "A", "A", "A", "A">>)),
       \* 17-20: base64 bodies outside [A-Za-z0-9+/]*={0,2}
       Base64Job(ToStr(<<"1">>), Hi, Undef, <<"A", "A", "=", "A">>),
       Base64Job(ToStr(<<"1">>), Hi, Undef, <<"A", "=", "=", "=">>),
       Base64Job(ToStr(<<"1">>), Hi, Undef, <<"a", ",", "b", ",", "c">>),
       Base64Job(Two, Hi, Undef, PngHeader \o <<",", "A", "!">>),
       \* 21-25: base64 bodies that decode to no byte
       Base64Job(ToStr(<<"1">>), Hi, Undef, <<>>),
       Base64Job(Two, Hi, Undef, PngHeader \o <<",">>),
       Base64Job(ToStr(<<"1">>), Hi, Undef, <<"=", "=">>),
       Base64Job(ToStr(<<"1">>), Undef, Undef, <<"=">>),
       Base64Job(ToStr(<<"1">>), Hi, Undef, <<"A">>),
       \* 26-28: captions
       Base64Job(ToStr(<<"1">>), Hi, Str(<<"c">>), <<"A", "A", "A", "A">>),
       Base64Job(ToStr(<<"1">>), Hi, Str(<<"SP">>), <<"A", "A", "A", "A">>),
       Base64Job(ToStr(<<"1">>), Undef, Str(<<"SP", "c", "NUL", "SP">>),
                 <<"A", "A", "A", "A">>),
       \* 29-30: texts of control characters only, and with inner whitespace
       Job(Two, Str(<<"NUL", "ESC", "BOM", "DEL">>), "text", Undef, Undef),
       Job(ToStr(<<"1">>), Str(<<"LF", "a", "TAB", "BOM", "b", "CR">>), "text",
           Undef, Undef),
       \* 31-34: a declared mimetype, with and without a filename
       MimeJob(PngHeader \o <<",", "A", "A", "A", "A">>, Str(ApplicationPdf),
               Undef),
       MimeJob(<<"A", "A", "A", "A">>, Str(ImageJpg), Undef),
       MimeJob(<<"A", "A", "A", "A">>, Str(ImagePng), Undef),
       MimeJob(PngHeader \o <<",", "A", "A", "A", "A">>, Str(ApplicationPdf),
               Str(<<"f", ".", "t", "x", "t">>)) >>

(***************************************************************************)
(* State.                                                                  *)
(*   job               the content of the queue messages (an index of      *)
(*                     JobPool); the queue holds MaxMsgs messages of it    *)
(*   clientInfo        client.info is set (the transport session is ready) *)
(*   rabbitConnection  the module-level handle: 0 is null, c > 0 is the    *)
(*                     c-th connection amqp.connect returned               *)
(*   rabbitChannel     the module-level handle: 0 is null, c > 0 is the    *)
(*                     channel created on connection c                     *)
(*   conns             every connection made so far and its channel        *)
(*   inits             the running calls of initRabbitMQ                    *)
(*   timers            pending setTimeout(initRabbitMQ, 5000)              *)
(*   readyCount        "ready" events so far                               *)
(*   msgs              the broker's view of the queue messages             *)
(*   active            the calls of the consumer callback that wait at an  *)
(*                     await, one per delivery                             *)
(*   last              the call of the consumer callback that ended last   *)
(*   delivered         deliveries so far                                   *)
(*   call              a call of one of the pure functions on its own:     *)
(*                     the function, its argument and what it returned     *)
(*   shutdown          the run of the SIGINT handler: where it is and the  *)
(*                     steps it completed                                  *)
(***************************************************************************)
VARIABLES job, clientInfo, rabbitConnection, rabbitChannel, conns, inits,
          timers, readyCount, msgs, active, last, delivered, call, shutdown

vars == <<job, clientInfo, rabbitConnection, rabbitChannel, conns, inits,
          timers, readyCount, msgs, active, last, delivered, call, shutdown>>

handles == <<rabbitConnection, rabbitChannel>>

\* a call of the consumer callback for message m, delivered on channel c
\* with delivery tag t
\*   pc        "send", "fetch", "delay": the await it waits at; "done"
\*   i         the recipient the loop of sendWhatsAppMessage is at
\*   results   the results array
\*   sent      the calls of client.sendMessage made so far
\*   route     the terminal decision the control flow reached
\*   calls     the ack / nack calls made on a channel object
\*   issued    the ack / nack frames written to an open channel
\*   returned  sendWhatsAppMessage returned its results
\*   threw     sendWhatsAppMessage threw
\*   rejected  ack / nack threw and the exception left the callback
\*   failedAt  the recipients whose client.sendMessage rejected or whose
\*             fetch did not end with response.ok
NewCallback(m, c, t) ==
    [msg |-> m, chan |-> c, tag |-> t, pc |-> "recv", i |-> 0,
     results |-> <<>>, sent |-> <<>>, route |-> "none", calls |-> <<>>,
     issued |-> <<>>, returned |-> FALSE, threw |-> FALSE, rejected |-> FALSE,
     failedAt |-> {}]

NoCallback == [NewCallback(0, 0, 0) EXCEPT !.pc = "none"]

\* no pure function was called on its own
NoCall == [fn |-> "none", arg |-> Undef, ret |-> <<>>]

\* no SIGINT was received
NoShutdown == [pc |-> "idle", log |-> <<>>, target |-> 0, cause |-> "none",
               inflight |-> {}]

\* the jobs that take the consumer through each of its routes
RouteJobs == {1, 2, 3, 4, 5, 7, 11}

InitEager ==
    /\ job \in RouteJobs
    /\ clientInfo = FALSE
    /\ rabbitConnection = 0
    /\ rabbitChannel = 0
    /\ conns = <<>>
    /\ inits = <<[pc |-> "connect", own |-> 0, target |-> 0,
                  fromReady |-> FALSE]>>
    /\ timers = 0
    /\ readyCount = 0
    /\ msgs = [m \in 1..MaxMsgs |-> [state |-> "ready", chan |-> 0, tag |-> 0]]
    /\ active = {}
    /\ last = NoCallback
    /\ delivered = 0
    /\ call = NoCall
    /\ shutdown = NoShutdown

Init ==
    /\ job \in RouteJobs
    /\ clientInfo = FALSE
    /\ rabbitConnection = 0
    /\ rabbitChannel = 0
    /\ conns = <<>>
    /\ inits = <<>>
    /\ timers = 0
    /\ readyCount = 0
    /\ msgs = [m \in 1..MaxMsgs |-> [state |-> "ready", chan |-> 0, tag |-> 0]]
    /\ active = {}
    /\ last = NoCallback
    /\ delivered = 0
    /\ call = NoCall
    /\ shutdown = NoShutdown

(***************************************************************************)
(* The broker.                                                             *)
(***************************************************************************)
\* the messages delivered on channel h that the broker still waits on
Outstanding(ms, h) ==
    {m \in DOMAIN ms : ms[m].state = "unacked" /\ ms[m].chan = h}

\* a closed channel's unacknowledged messages go back to the queue
RequeueAll(ms, h) ==
    [m \in DOMAIN ms |->
        IF m \in Outstanding(ms, h)
        THEN [state |-> "ready", chan |-> 0, tag |-> 0] ELSE ms[m]]

\* a closed channel has no consumers left
CloseChannel(cs, h) ==
    [cs EXCEPT ![h].chan = IF cs[h].chan = "open" THEN "closed" ELSE cs[h].chan,
               ![h].prefetch = FALSE, ![h].cap = 0, ![h].unlimited = FALSE,
               ![h].nextTag = 1]

Settled(kind) ==
    CASE kind = "ack" -> "acked"
      [] kind = "requeue" -> "ready"
      [] OTHER -> "dead"

\* basic.ack / basic.nack with delivery tag `tag` arrives on open channel h:
\* it settles the delivery of h that carries the tag; a tag that h does not
\* know is a channel error (406 PRECONDITION_FAILED) and closes the channel
Frame(ms, cs, h, tag, kind) ==
    LET hit == {m \in Outstanding(ms, h) : ms[m].tag = tag}
    IN IF hit # {}
       THEN [msgs |-> [m \in DOMAIN ms |->
                          IF m \in hit
                          THEN [state |-> Settled(kind), chan |-> 0, tag |-> 0]
                          ELSE ms[m]],
             conns |-> cs]
       ELSE [msgs |-> RequeueAll(ms, h), conns |-> CloseChannel(cs, h)]

(***************************************************************************)
(* server2.ts: the consumer callback of consumeMessages, lines 181-209.    *)
(* A step of the callback yields the world after it: msgs, conns and cb,   *)
(* the callback's own record.                                              *)
(***************************************************************************)
\* rabbitChannel?.ack(msg) or rabbitChannel?.nack(msg, false, requeue), the
\* last thing the callback does.  inTry: the call stands in the try block,
\* so that an exception it throws runs the catch block, which calls
\* rabbitChannel?.nack(msg, false, false).  amqplib throws
\* IllegalOperationError from ack and nack on a closed channel.
Decide(ms, cs, cb, kind, inTry) ==
    LET h == rabbitChannel
        done == [cb EXCEPT !.pc = "done", !.route = kind]
    IN IF h = 0
       THEN [msgs |-> ms, conns |-> cs, cb |-> done]
       ELSE IF cs[h].chan # "open"
       THEN [msgs |-> ms, conns |-> cs,
             cb |-> [done EXCEPT
                        !.rejected = TRUE,
                        !.calls = IF inTry THEN <<kind, "dead">> ELSE <<kind>>]]
       ELSE LET f == Frame(ms, cs, h, cb.tag, kind)
            IN [msgs |-> f.msgs, conns |-> f.conns,
                cb |-> [done EXCEPT
                           !.calls = <<kind>>,
                           !.issued = <<[kind |-> kind, chan |-> h]>>]]

ContinueAckFirst(ms, cs, cb, run) ==
    LET cb1 == [cb EXCEPT !.i = run.i, !.results = run.results,
                          !.sent = run.sent]
        d == Decide(ms, cs, [cb1 EXCEPT !.returned = run.at = "returned"],
                    "ack", TRUE)
    IN [d EXCEPT !.cb.pc = IF run.at = "returned" THEN "done" ELSE run.at]

\* the callback goes on after sendWhatsAppMessage ran up to `run`
Continue(ms, cs, cb, run) ==
    LET cb1 == [cb EXCEPT !.i = run.i, !.results = run.results,
                          !.sent = run.sent]
    IN IF run.at = "returned"
       THEN Decide(ms, cs, [cb1 EXCEPT !.returned = TRUE], "ack", TRUE)
       ELSE [msgs |-> ms, conns |-> cs, cb |-> [cb1 EXCEPT !.pc = run.at]]

\* lines 184-208 up to the first await inside sendWhatsAppMessage
consumeCallback(ms, cs, cb) ==
    LET messageData == JobPool[job]
    IN IF ~messageData.parseable
       THEN Decide(ms, cs, cb, "dead", FALSE)
       ELSE IF ~validateMessageData(messageData)
       THEN Decide(ms, cs, cb, "dead", TRUE)
       ELSE IF ~clientInfo
       THEN Decide(ms, cs, cb, "requeue", TRUE)
       ELSE IF messageData.to.kind = "other"
       THEN Decide(ms, cs, [cb EXCEPT !.threw = TRUE], "dead", FALSE)
       ELSE Continue(ms, cs, cb,
                     RunFrom(messageData, Recipients(messageData.to), 1,
                             <<>>, <<>>))

\* the world after a step of callback `old` (a member of active, or a new one)
Apply(old, w) ==
    /\ msgs' = w.msgs
    /\ conns' = w.conns
    /\ IF w.cb.pc = "done"
       THEN /\ active' = active \ {old}
            /\ last' = w.cb
       ELSE /\ active' = (active \ {old}) \cup {w.cb}
            /\ UNCHANGED last

\* how many deliveries channel c may have unacknowledged
Capacity(c) ==
    IF conns[c].unlimited THEN MaxDeliveries ELSE conns[c].cap

\* the broker delivers ready message m on channel c and amqplib calls the
\* consumer callback with it
Deliver(m, c) ==
    /\ delivered < MaxDeliveries
    /\ msgs[m].state = "ready"
    /\ conns[c].chan = "open"
    /\ Cardinality(Outstanding(msgs, c)) < Capacity(c)
    /\ delivered' = delivered + 1
    /\ LET cb == NewCallback(m, c, conns[c].nextTag)
       IN Apply(cb,
                consumeCallback(
                    [msgs EXCEPT ![m] = [state |-> "unacked", chan |-> c,
                                         tag |-> conns[c].nextTag]],
                    [conns EXCEPT ![c].nextTag = @ + 1], cb))
    /\ UNCHANGED <<job, call, shutdown, clientInfo, handles, inits, timers, readyCount>>

SendResolvedNoDelay(cb, ok) ==
    /\ cb.pc = "send"
    /\ LET messageData == JobPool[job]
           recipients == Recipients(messageData.to)
       IN Apply(cb, Continue(msgs, conns,
                             [cb EXCEPT !.failedAt =
                                            IF ok THEN @ ELSE @ \cup {cb.i}],
                             RunFrom(messageData, recipients, cb.i + 1,
                                     Append(cb.results,
                                            IF ok
                                            THEN Success(PhoneNumber(
                                                     recipients[cb.i]))
                                            ELSE Failure(recipients[cb.i],
                                                         "SendRejected")),
                                     cb.sent)))
    /\ UNCHANGED <<job, call, shutdown, clientInfo, handles, inits, timers,
                   readyCount, delivered>>

\* the promise of client.sendMessage settles for recipient i of callback cb:
\* lines 224-232 when it resolves, lines 233-238 when it rejects
SendResolved(cb, ok) ==
    /\ cb.pc = "send"
    /\ LET messageData == JobPool[job]
           recipients == Recipients(messageData.to)
       IN IF ok
          THEN Apply(cb, [msgs |-> msgs, conns |-> conns,
                          cb |-> [cb EXCEPT
                                     !.pc = "delay",
                                     !.results =
                                         Append(@, Success(PhoneNumber(
                                                       recipients[cb.i])))]])
          ELSE Apply(cb, Continue(msgs, conns,
                                  [cb EXCEPT !.failedAt = @ \cup {cb.i}],
                                  RunFrom(messageData, recipients, cb.i + 1,
                                          Append(cb.results,
                                                 Failure(recipients[cb.i],
                                                         "SendRejected")),
                                          cb.sent)))
    /\ UNCHANGED <<job, call, shutdown, clientInfo, handles, inits, timers, readyCount,
                   delivered>>

\* line 232: the 1000 ms timeout after a successful send is over
DelayElapsed(cb) ==
    /\ cb.pc = "delay"
    /\ LET messageData == JobPool[job]
       IN Apply(cb, Continue(msgs, conns, cb,
                             RunFrom(messageData, Recipients(messageData.to),
                                     cb.i + 1, cb.results, cb.sent)))
    /\ UNCHANGED <<job, call, shutdown, clientInfo, handles, inits, timers, readyCount,
                   delivered>>

\* line 174: fetch(mediaUrl) settles for recipient i of callback cb, with
\* response.ok ("ok"), with another status ("status") or with an exception
FetchResolved(cb, outcome) ==
    /\ cb.pc = "fetch"
    /\ LET messageData == JobPool[job]
           recipients == Recipients(messageData.to)
       IN IF outcome = "ok"
          THEN Apply(cb, [msgs |-> msgs, conns |-> conns,
                          cb |-> [cb EXCEPT
                                     !.pc = "send",
                                     !.sent =
                                         Append(@, UrlSend(messageData,
                                                    PhoneNumber(
                                                        recipients[cb.i])))]])
          ELSE Apply(cb, Continue(msgs, conns,
                                  [cb EXCEPT !.failedAt = @ \cup {cb.i}],
                                  RunFrom(messageData, recipients, cb.i + 1,
                                          Append(cb.results,
                                                 Failure(recipients[cb.i],
                                                         IF outcome = "status"
                                                         THEN "FetchStatus"
                                                         ELSE "FetchThrew")),
                                          cb.sent)))
    /\ UNCHANGED <<job, call, shutdown, clientInfo, handles, inits, timers, readyCount,
                   delivered>>

(***************************************************************************)
(* server2.ts: initRabbitMQ, consumeMessages, setupRabbitMQErrorHandlers   *)
(* and the handlers of "ready" and "disconnected".                         *)
(***************************************************************************)
NewConn == [open |-> TRUE, chan |-> "none", handlers |-> 0, prefetch |-> FALSE,
            cap |-> 0, unlimited |-> FALSE, nextTag |-> 1]

\* a closed connection: its channel is closed with it, and a "close" handler
\* runs once
ClosedConn == [NewConn EXCEPT !.open = FALSE, !.chan = "closed"]

Remove(seq, p) == SubSeq(seq, 1, p - 1) \o SubSeq(seq, p + 1, Len(seq))

\* initRabbitMQ call p is over, through its catch block (failed: the timer
\* of line 170 is set) or not.  The "ready" handler that awaited it goes on
\* with setupRabbitMQErrorHandlers (lines 343-356), which registers a
\* "close" handler on the connection the module handle names now (rc)
EndInit(p, failed, rc, cs) ==
    /\ inits' = Remove(inits, p)
    /\ timers' = IF failed THEN timers + 1 ELSE timers
    /\ conns' = IF inits[p].fromReady /\ rc # 0 /\ cs[IF rc = 0 THEN 1 ELSE rc].open
                THEN [cs EXCEPT ![rc].handlers = @ + 1] ELSE cs

\* line 160: amqp.connect resolves
ConnectOk(p) ==
    /\ inits[p].pc = "connect"
    /\ Len(conns) < MaxConns
    /\ conns' = Append(conns, NewConn)
    /\ rabbitConnection' = Len(conns) + 1
    /\ inits' = [inits EXCEPT ![p].pc = "channel", ![p].own = Len(conns) + 1]
    /\ UNCHANGED <<job, call, shutdown, clientInfo, rabbitChannel, timers, readyCount, msgs,
                   active, last, delivered>>

\* line 160: amqp.connect rejects (the broker is not reachable)
ConnectFail(p) ==
    /\ inits[p].pc = "connect"
    /\ EndInit(p, TRUE, rabbitConnection, conns)
    /\ UNCHANGED <<job, call, shutdown, clientInfo, handles, readyCount, msgs, active, last,
                   delivered>>

\* line 161: createChannel settles; line 163 calls assertQueue
ChannelResolved(p) ==
    /\ inits[p].pc = "channel"
    /\ LET c == inits[p].own
       IN IF conns[c].open
          THEN /\ conns' = [conns EXCEPT ![c].chan = "open"]
               /\ rabbitChannel' = c
               /\ inits' = [inits EXCEPT ![p].pc = "assert"]
               /\ UNCHANGED timers
          ELSE /\ EndInit(p, TRUE, rabbitConnection, conns)
               /\ UNCHANGED rabbitChannel
    /\ UNCHANGED <<job, call, shutdown, clientInfo, rabbitConnection, readyCount, msgs, active, last,
                   delivered>>

\* line 163: assertQueue settles (refused: a channel error such as
\* 405 RESOURCE_LOCKED, which closes the channel); line 164 calls prefetch
\* on the channel the module handle names now
AssertResolved(p, refused) ==
    /\ inits[p].pc = "assert"
    /\ LET c == inits[p].own
           h == rabbitChannel
       IN IF conns[c].chan = "open" /\ ~refused /\ h # 0
             /\ conns[IF h = 0 THEN c ELSE h].chan = "open"
          THEN /\ inits' = [inits EXCEPT ![p].pc = "prefetch", ![p].target = h]
               /\ UNCHANGED <<conns, timers, msgs>>
          ELSE /\ EndInit(p, TRUE, rabbitConnection,
                          IF conns[c].chan = "open" /\ refused
                          THEN CloseChannel(conns, c) ELSE conns)
               /\ msgs' = IF conns[c].chan = "open" /\ refused
                          THEN RequeueAll(msgs, c) ELSE msgs
    /\ UNCHANGED <<job, call, shutdown, clientInfo, handles, readyCount, active, last,
                   delivered>>

\* line 164: prefetch settles; line 167 calls consumeMessages, which returns
\* at once when the module handle is null (lines 176-179) and calls consume
\* on the channel the handle names otherwise
PrefetchResolved(p) ==
    /\ inits[p].pc = "prefetch"
    /\ LET t == inits[p].target
           h == rabbitChannel
           cs == [conns EXCEPT ![t].prefetch = TRUE]
       IN IF conns[t].chan # "open"
          THEN EndInit(p, TRUE, rabbitConnection, conns)
          ELSE IF h = 0
          THEN EndInit(p, FALSE, rabbitConnection, cs)
          ELSE IF conns[h].chan # "open"
          THEN EndInit(p, TRUE, rabbitConnection, cs)
          ELSE /\ inits' = [inits EXCEPT ![p].pc = "consume", ![p].target = h]
               /\ conns' = cs
               /\ UNCHANGED timers
    /\ UNCHANGED <<job, call, shutdown, clientInfo, handles, readyCount, msgs, active, last,
                   delivered>>

\* line 181: consume settles; the broker has a new consumer on the channel,
\* limited to one unacknowledged message if prefetch(1) came first
ConsumeResolved(p) ==
    /\ inits[p].pc = "consume"
    /\ LET t == inits[p].target
       IN IF conns[t].chan # "open"
          THEN EndInit(p, TRUE, rabbitConnection, conns)
          ELSE EndInit(p, FALSE, rabbitConnection,
                       IF conns[t].prefetch
                       THEN [conns EXCEPT ![t].cap = @ + 1]
                       ELSE [conns EXCEPT ![t].unlimited = TRUE])
    /\ UNCHANGED <<job, call, shutdown, clientInfo, handles, readyCount, msgs, active, last,
                   delivered>>

NewInit(fromReady) ==
    [pc |-> "connect", own |-> 0, target |-> 0, fromReady |-> fromReady]

\* a timer of setTimeout(initRabbitMQ, 5000) fires
TimerFires ==
    /\ timers > 0
    /\ Len(inits) < MaxInits
    /\ timers' = timers - 1
    /\ inits' = Append(inits, NewInit(FALSE))
    /\ UNCHANGED <<job, call, shutdown, clientInfo, handles, conns, readyCount, msgs, active, last,
                   delivered>>

\* the transport emits "ready": client.info is set, lines 384-398 run
TransportReady ==
    /\ readyCount < MaxReady
    /\ Len(inits) < MaxInits
    /\ clientInfo' = TRUE
    /\ readyCount' = readyCount + 1
    /\ inits' = Append(inits, NewInit(TRUE))
    /\ UNCHANGED <<job, call, shutdown, handles, conns, timers, msgs, active, last,
                   delivered>>

\* connection c is closed, by the broker, the network or connection.close():
\* its channel is gone, its unacknowledged messages return to the queue and
\* every registered "close" handler runs (lines 349-354)
CloseConnection(c) ==
    /\ conns' = [conns EXCEPT ![c] = ClosedConn]
    /\ msgs' = RequeueAll(msgs, c)
    /\ IF conns[c].handlers > 0
       THEN /\ rabbitConnection' = 0
            /\ rabbitChannel' = 0
            /\ timers' = timers + conns[c].handlers
       ELSE UNCHANGED <<handles, timers>>

BrokerClose(c) ==
    /\ conns[c].open
    /\ CloseConnection(c)
    /\ UNCHANGED <<job, call, shutdown, clientInfo, inits, readyCount, active, last,
                   delivered>>

\* the transport emits "disconnected" (lines 533-538); whether the library
\* keeps client.info afterwards is its own affair (cleared or not)
TransportDisconnected(cleared) ==
    /\ clientInfo
    /\ clientInfo' = ~cleared
    /\ IF rabbitConnection # 0 /\ conns[rabbitConnection].open
       THEN CloseConnection(rabbitConnection)
       ELSE UNCHANGED <<handles, conns, timers, msgs>>
    /\ UNCHANGED <<job, call, shutdown, inits, readyCount, active, last,
                   delivered>>

Next ==
    \/ TransportReady
    \/ \E cleared \in BOOLEAN : TransportDisconnected(cleared)
    \/ TimerFires
    \/ \E p \in 1..Len(inits) : ConnectOk(p)
    \/ \E p \in 1..Len(inits) : ConnectFail(p)
    \/ \E p \in 1..Len(inits) : ChannelResolved(p)
    \/ \E p \in 1..Len(inits), refused \in BOOLEAN : AssertResolved(p, refused)
    \/ \E p \in 1..Len(inits) : PrefetchResolved(p)
    \/ \E p \in 1..Len(inits) : ConsumeResolved(p)
    \/ \E c \in 1..Len(conns) : BrokerClose(c)
    \/ \E m \in 1..MaxMsgs, c \in 1..Len(conns) : Deliver(m, c)
    \/ \E cb \in active, ok \in BOOLEAN : SendResolved(cb, ok)
    \/ \E cb \in active : DelayElapsed(cb)
    \/ \E cb \in active, outcome \in {"ok", "status", "throw"} :
           FetchResolved(cb, outcome)

Spec == Init /\ [][Next]_vars

(***************************************************************************)
(* The dispatcher on every job of JobPool, from the state a start-up       *)
(* without failures leaves ("ready", initRabbitMQ through to consume,      *)
(* setupRabbitMQErrorHandlers) and with the connection staying up.         *)
(***************************************************************************)
InitDispatch ==
    /\ job \in 1..Len(JobPool)
    /\ clientInfo = TRUE
    /\ rabbitConnection = 1
    /\ rabbitChannel = 1
    /\ conns = <<[NewConn EXCEPT !.chan = "open", !.handlers = 1,
                                 !.prefetch = TRUE, !.cap = 1]>>
    /\ inits = <<>>
    /\ timers = 0
    /\ readyCount = 1
    /\ msgs = [m \in 1..MaxMsgs |-> [state |-> "ready", chan |-> 0, tag |-> 0]]
    /\ active = {}
    /\ last = NoCallback
    /\ delivered = 0
    /\ call = NoCall
    /\ shutdown = NoShutdown

NextDispatch ==
    \/ \E m \in 1..MaxMsgs, c \in 1..Len(conns) : Deliver(m, c)
    \/ \E cb \in active, ok \in BOOLEAN : SendResolved(cb, ok)
    \/ \E cb \in active : DelayElapsed(cb)
    \/ \E cb \in active, outcome \in {"ok", "status", "throw"} :
           FetchResolved(cb, outcome)

SpecDispatch == InitDispatch /\ [][NextDispatch]_vars


(***************************************************************************)
(* The program with fair scheduling, from the state in which the queue is  *)
(* consumed while the transport is not ready: "ready", then "disconnected" *)
(* with client.info cleared (its "close" handler set the timer), then the  *)
(* timer's initRabbitMQ through to consume.  The closed first connection   *)
(* is left out of conns.  Every promise settles, every timer fires and the *)
(* broker delivers what it may deliver; the events of the transport and    *)
(* the loss of a connection are not forced.                                *)
(***************************************************************************)
LiveJobs == {1, 11}

InitLive ==
    /\ job \in LiveJobs
    /\ clientInfo = FALSE
    /\ rabbitConnection = 1
    /\ rabbitChannel = 1
    /\ conns = <<[NewConn EXCEPT !.chan = "open", !.prefetch = TRUE,
                                 !.cap = 1]>>
    /\ inits = <<>>
    /\ timers = 0
    /\ readyCount = 1
    /\ msgs = [m \in 1..MaxMsgs |-> [state |-> "ready", chan |-> 0, tag |-> 0]]
    /\ active = {}
    /\ last = NoCallback
    /\ delivered = 0
    /\ call = NoCall
    /\ shutdown = NoShutdown

Fairness ==
    /\ WF_vars(\E m \in 1..MaxMsgs, c \in 1..Len(conns) : Deliver(m, c))
    /\ WF_vars(\E cb \in active, ok \in BOOLEAN : SendResolved(cb, ok))
    /\ WF_vars(\E cb \in active : DelayElapsed(cb))
    /\ WF_vars(\E cb \in active, outcome \in {"ok", "status", "throw"} :
                   FetchResolved(cb, outcome))
    /\ WF_vars(TimerFires)
    /\ WF_vars(\E p \in 1..Len(inits) : ConnectOk(p) \/ ConnectFail(p))
    /\ WF_vars(\E p \in 1..Len(inits) : ChannelResolved(p))
    /\ WF_vars(\E p \in 1..Len(inits), refused \in BOOLEAN :
                   AssertResolved(p, refused))
    /\ WF_vars(\E p \in 1..Len(inits) : PrefetchResolved(p))
    /\ WF_vars(\E p \in 1..Len(inits) : ConsumeResolved(p))

SpecLive == InitLive /\ [][Next]_vars /\ Fairness

(***************************************************************************)
(* server2.ts: the SIGINT handler, lines 540-553, beside the rest of the   *)
(* program.  amqplib rejects close() on a channel or connection that is    *)
(* closed already (IllegalOperationError); an exception in the handler     *)
(* ends it as an unhandled rejection, on which the runtime either ends the *)
(* process at once or leaves it running.                                   *)
(***************************************************************************)
\* the process runs; shutdown.inflight records the deliveries (channel and
\* tag) whose callback waited at an await when SIGINT arrived;
\* shutdown.cause records why the handler ended early:
\* "closed" (close() called on a handle that is closed already), "lost" (the
\* object went away while its close was awaited), "transport" (destroy failed)
Alive == shutdown.pc \notin {"exited", "crashed"}

\* lines 551: client.destroy() is called
CallDestroy(sd) == [sd EXCEPT !.pc = "destroy"]

\* lines 547-551: rabbitConnection.close() is called if the handle rc is set
AfterChannel(sd, rc, cs) ==
    IF rc = 0 THEN CallDestroy(sd)
    ELSE IF ~cs[rc].open THEN [sd EXCEPT !.pc = "rejected", !.cause = "closed"]
    ELSE [sd EXCEPT !.pc = "connection", !.target = rc]

\* SIGINT arrives; lines 541-544: rabbitChannel.close() is called if the
\* handle is set
Sigint ==
    /\ shutdown.pc = "idle"
    /\ LET sd == [shutdown EXCEPT
                      !.pc = "start",
                      !.inflight = {<<cb.chan, cb.tag>> : cb \in active}]
       IN shutdown' =
              IF rabbitChannel = 0
              THEN AfterChannel(sd, rabbitConnection, conns)
              ELSE IF conns[rabbitChannel].chan # "open"
              THEN [sd EXCEPT !.pc = "rejected", !.cause = "closed"]
              ELSE [sd EXCEPT !.pc = "channel", !.target = rabbitChannel]
    /\ UNCHANGED <<job, clientInfo, handles, conns, inits, timers, readyCount,
                   msgs, active, last, delivered, call>>

\* line 544: rabbitChannel.close() settles: the channel is closed and its
\* unacknowledged messages are back in the queue, or the channel went away
\* while the close was awaited and the promise rejects
ChannelCloseResolved ==
    /\ shutdown.pc = "channel"
    /\ LET h == shutdown.target
       IN IF conns[h].chan = "open"
          THEN /\ conns' = CloseChannel(conns, h)
               /\ msgs' = RequeueAll(msgs, h)
               /\ shutdown' = AfterChannel(
                                  [shutdown EXCEPT !.log = Append(@, "channel")],
                                  rabbitConnection, conns)
          ELSE /\ shutdown' = [shutdown EXCEPT !.pc = "rejected",
                                                 !.cause = "lost"]
               /\ UNCHANGED <<conns, msgs>>
    /\ UNCHANGED <<job, clientInfo, handles, inits, timers, readyCount, active,
                   last, delivered, call>>

\* line 548: rabbitConnection.close() settles: the connection is closed (its
\* "close" handlers run), or it went away while the close was awaited and
\* the promise resolves (ok) or rejects
ConnectionCloseResolved(ok) ==
    /\ shutdown.pc = "connection"
    /\ LET c == shutdown.target
       IN IF conns[c].open
          THEN /\ CloseConnection(c)
               /\ shutdown' = CallDestroy(
                                  [shutdown EXCEPT !.log = Append(@, "connection")])
          ELSE /\ shutdown' = IF ok
                              THEN CallDestroy([shutdown EXCEPT
                                                   !.log = Append(@, "connection")])
                              ELSE [shutdown EXCEPT !.pc = "rejected",
                                                    !.cause = "lost"]
               /\ UNCHANGED <<handles, conns, timers, msgs>>
    /\ UNCHANGED <<job, clientInfo, inits, readyCount, active, last, delivered,
                   call>>

\* lines 551-552: client.destroy() settles; process.exit(0) follows when it
\* resolved
DestroyResolved(ok) ==
    /\ shutdown.pc = "destroy"
    /\ shutdown' = IF ok
                   THEN [shutdown EXCEPT !.pc = "exited",
                                         !.log = Append(@, "transport")]
                   ELSE [shutdown EXCEPT !.pc = "rejected",
                                         !.cause = "transport"]
    /\ UNCHANGED <<job, clientInfo, handles, conns, inits, timers, readyCount,
                   msgs, active, last, delivered, call>>

\* the runtime ends the process on the unhandled rejection of the handler
Crash ==
    /\ shutdown.pc = "rejected"
    /\ shutdown' = [shutdown EXCEPT !.pc = "crashed"]
    /\ UNCHANGED <<job, clientInfo, handles, conns, inits, timers, readyCount,
                   msgs, active, last, delivered, call>>

\* the jobs the shutdown is run beside
ShutdownJobs == {11}

InitShutdown == Init /\ job \in ShutdownJobs

NextShutdown ==
    \/ Sigint
    \/ ChannelCloseResolved
    \/ \E ok \in BOOLEAN : ConnectionCloseResolved(ok)
    \/ \E ok \in BOOLEAN : DestroyResolved(ok)
    \/ Crash
    \/ (Alive /\ Next)

SpecShutdown == InitShutdown /\ [][NextShutdown]_vars

(***************************************************************************)
(* The pure functions on their own: sanitizeMessage and                    *)
(* getExtensionFromMimetype called once on an argument drawn from the      *)
(* texts of up to MaxText characters and from the MIME types below.        *)
(***************************************************************************)
\* an ordinary character, removed control characters (NUL, VT, DEL),
\* whitespace that is kept inside a text (TAB, LF, CR, SP, NBSP) and the BOM
TextAlphabet ==
    {"a", "NUL", "VT", "DEL", "TAB", "LF", "CR", "SP", "NBSP", "BOM"}

Texts == UNION {[1..n -> TextAlphabet] : n \in 0..MaxText}

\* keys of the table as they are, in other cases, names that every object
\* inherits, and strings the table does not know
MimeInputs ==
    {e.key : e \in mimetypeMap}
        \cup { <<"I", "M", "A", "G", "E", "/", "P", "N", "G">>,
               <<"I", "m", "a", "g", "e", "/", "J", "p", "e", "g">>,
               <<"A", "p", "p", "l", "i", "c", "a", "t", "i", "o", "n", "/", "P", "D", "F">>,
               <<"c", "o", "n", "s", "t", "r", "u", "c", "t", "o", "r">>,
               <<"t", "o", "S", "t", "r", "i", "n", "g">>,
               <<"_", "_", "p", "r", "o", "t", "o", "_", "_">>,
               <<"t", "e", "x", "t", "/", "p", "l", "a", "i", "n">>,
               <<"i", "m", "a", "g", "e", "/">>,
               <<>> }

\* recipients without the suffix "@c.us", with it at the end, with it
\* elsewhere, and with the suffix of a group
RecipientInputs ==
    { <<"1">>,
      <<"1">> \o CUs,
      <<"1">> \o CUs \o <<"x">>,
      CUs \o <<"1">>,
      <<"1">> \o CUs \o CUs,
      <<"1", "@", "g", ".", "u", "s">>,
      <<"1", "@", "c", ".", "u">>,
      CUs }

\* encoded payloads: raw base64, a data URL, headers that do not match the
\* pattern, a match inside a longer header, more than one comma, an empty
\* header, an empty body and bodies outside the base64 alphabet
ParseInputs ==
    LET AAAA == <<"A", "A", "A", "A">>
        DataOf(mime) == DataPrefix \o mime \o Base64Suffix
    IN { AAAA,
         PngHeader \o <<",">> \o AAAA,
         <<"x", ",">> \o AAAA,
         DataOf(<<>>) \o <<",">> \o AAAA,
         DataOf(<<"a", ";", "b">>) \o <<",">> \o AAAA,
         <<"x">> \o DataOf(<<"a", "/", "b">>) \o <<"y", ",">> \o AAAA,
         DataOf(<<"a", "/", "b">>) \o DataOf(<<"c">>) \o <<",">> \o AAAA,
         <<"d", "a", "t", "a", ":", "a", "/", "b", ",">> \o AAAA,
         PngHeader \o <<",">> \o AAAA \o <<",">> \o AAAA,
         PngHeader \o AAAA,
         <<",">> \o AAAA,
         AAAA \o <<",">>,
         PngHeader \o <<",", "A", "!">>,
         <<"A", "A", "=", "=">>,
         <<"A", "!">> }

InitPure ==
    /\ job = 1
    /\ clientInfo = FALSE
    /\ rabbitConnection = 0
    /\ rabbitChannel = 0
    /\ conns = <<>>
    /\ inits = <<>>
    /\ timers = 0
    /\ readyCount = 0
    /\ msgs = <<>>
    /\ active = {}
    /\ last = NoCallback
    /\ delivered = 0
    /\ call \in {[NoCall EXCEPT !.arg = a] :
                    a \in {Undef} \cup {Str(t) : t \in Texts \cup MimeInputs
                                                       \cup RecipientInputs
                                                       \cup ParseInputs}}
    /\ shutdown = NoShutdown

program == <<job, clientInfo, rabbitConnection, rabbitChannel, conns, inits,
             timers, readyCount, msgs, active, last, delivered, shutdown>>

\* sanitizeMessage(arg); an argument that is no string is Undef
CallSanitize ==
    /\ call.fn = "none"
    /\ call' = [call EXCEPT !.fn = "sanitizeMessage",
                            !.ret = sanitizeMessage(call.arg)]
    /\ UNCHANGED program

\* getExtensionFromMimetype(arg) on a string
CallGetExtension ==
    /\ call.fn = "none"
    /\ call.arg.def
    /\ call' = [call EXCEPT !.fn = "getExtensionFromMimetype",
                            !.ret = getExtensionFromMimetype(call.arg.val)]
    /\ UNCHANGED program

\* bas64.handler.ts lines 108-110 on a recipient
CallPhoneNumber ==
    /\ call.fn = "none"
    /\ call.arg.def
    /\ call' = [call EXCEPT !.fn = "phoneNumber",
                            !.ret = PhoneNumber(call.arg.val)]
    /\ UNCHANGED program

\* parseBase64Image(arg) on a string
CallParseBase64Image ==
    /\ call.fn = "none"
    /\ call.arg.def
    /\ call' = [call EXCEPT !.fn = "parseBase64Image",
                            !.ret = parseBase64Image(call.arg.val)]
    /\ UNCHANGED program

NextPure ==
    \/ CallSanitize
    \/ CallGetExtension
    \/ CallPhoneNumber
    \/ CallParseBase64Image

SpecPure == InitPure /\ [][NextPure]_vars

(***************************************************************************)
(* server2.ts: the handler of "message" (lines 400-472) and runCommand     *)
(* (lines 555-729), and the older variant of both in bas64.handler.ts      *)
(* (lines 544-586, 689-862), as functions of the inbound message and of    *)
(* what the collaborators answer.  A message is                            *)
(*   body          msg.body, Undef when it is no string                    *)
(*   hasMedia, hasQuotedMsg                                                *)
(*   isGroup       chat.isGroup of msg.getChat()                           *)
(*   assistant     how the generative-text backend answers: "answer",      *)
(*                 "blank" (nothing left after sanitizing), "garbage" (no  *)
(*                 JSON), "status" (not 200), "down" (fetch throws)        *)
(* and the result is the handler that took it, the prompt posted to the    *)
(* backend, the command branches that ran and the calls made on the        *)
(* transport.                                                              *)
(***************************************************************************)
\* String.prototype.startsWith
StartsWith(s, prefix) ==
    Len(s) >= Len(prefix) /\ SubSeq(s, 1, Len(prefix)) = prefix

\* String.prototype.indexOf: the first place of sub in s, from 0; -1 if none
IndexOf(s, sub) ==
    LET hits == {i \in 0..(Len(s) - Len(sub)) :
                    SubSeq(s, i + 1, i + Len(sub)) = sub}
    IN IF hits = {} THEN -1
       ELSE CHOOSE i \in hits : \A j \in hits : i <= j

\* String.prototype.slice(from) for from >= 0
Slice(s, from) == SubSeq(s, from + 1, Len(s))

RECURSIVE Join(_, _)
\* Array.prototype.join on a one-character separator
Join(parts, sep) ==
    IF parts = <<>> THEN <<>>
    ELSE IF Len(parts) = 1 THEN parts[1]
    ELSE parts[1] \o <<sep>> \o Join(Tail(parts), sep)

\* "/jarvis"
Jarvis == <<"/", "j", "a", "r", "v", "i", "s">>

\* msg.from
From == <<"f">>

\* the texts the handlers send
Pong == <<"p", "o", "n", "g">>

GroupOnly == <<"This command can only be used in a group!">>

NoImages == <<"Disculpa no puedo interpretar imagenes">>

NoValidAnswer == <<"Lo siento, no pude generar una respuesta valida.">>

AnswerError == <<"Error procesando la respuesta del asistente.">>

AssistantDown == <<"Error comunicandose con el asistente.">>

StatusText == <<"statusText">>

\* json2md(parsed.respuesta) of an answer, with a control character in it
Answer == <<"r", "NUL">>

\* a call on the transport
Effect(op, to, text) == [op |-> op, to |-> to, text |-> text]

\* the if / else if chain of runCommand, in its order: the branch, whether the
\* body must equal the text or start with it, and what else the guard asks
Chain ==
    << [name |-> "pingReply", kind |-> "eq", needs |-> "none",
        text |-> <<"!", "p", "i", "n", "g", "SP", "r", "e", "p", "l", "y">>],
       [name |-> "ping", kind |-> "eq", needs |-> "none",
        text |-> <<"!", "p", "i", "n", "g">>],
       [name |-> "sendto", kind |-> "prefix", needs |-> "none",
        text |-> <<"!", "s", "e", "n", "d", "t", "o", "SP">>],
       [name |-> "subject", kind |-> "prefix", needs |-> "none",
        text |-> <<"!", "s", "u", "b", "j", "e", "c", "t", "SP">>],
       [name |-> "echo", kind |-> "prefix", needs |-> "none",
        text |-> <<"!", "e", "c", "h", "o", "SP">>],
       [name |-> "preview", kind |-> "prefix", needs |-> "none",
        text |-> <<"!", "p", "r", "e", "v", "i", "e", "w", "SP">>],
       [name |-> "desc", kind |-> "prefix", needs |-> "none",
        text |-> <<"!", "d", "e", "s", "c", "SP">>],
       [name |-> "leave", kind |-> "eq", needs |-> "none",
        text |-> <<"!", "l", "e", "a", "v", "e">>],
       [name |-> "chats", kind |-> "eq", needs |-> "none",
        text |-> <<"!", "c", "h", "a", "t", "s">>],
       [name |-> "info", kind |-> "eq", needs |-> "none",
        text |-> <<"!", "i", "n", "f", "o">>],
       [name |-> "mediainfo", kind |-> "eq", needs |-> "media",
        text |-> <<"!", "m", "e", "d", "i", "a", "i", "n", "f", "o">>],
       [name |-> "quoteinfo", kind |-> "eq", needs |-> "quoted",
        text |-> <<"!", "q", "u", "o", "t", "e", "i", "n", "f", "o">>],
       [name |-> "resendmedia", kind |-> "eq", needs |-> "quoted",
        text |-> <<"!", "r", "e", "s", "e", "n", "d", "m", "e", "d", "i", "a">>],
       [name |-> "isviewonce", kind |-> "eq", needs |-> "quoted",
        text |-> <<"!", "i", "s", "v", "i", "e", "w", "o", "n", "c", "e">>],
       [name |-> "status", kind |-> "prefix", needs |-> "none",
        text |-> <<"!", "s", "t", "a", "t", "u", "s", "SP">>],
       [name |-> "delete", kind |-> "eq", needs |-> "none",
        text |-> <<"!", "d", "e", "l", "e", "t", "e">>],
       [name |-> "pin", kind |-> "eq", needs |-> "none",
        text |-> <<"!", "p", "i", "n">>],
       [name |-> "archive", kind |-> "eq", needs |-> "none",
        text |-> <<"!", "a", "r", "c", "h", "i", "v", "e">>],
       [name |-> "mute", kind |-> "eq", needs |-> "none",
        text |-> <<"!", "m", "u", "t", "e">>],
       [name |-> "typing", kind |-> "eq", needs |-> "none",
        text |-> <<"!", "t", "y", "p", "i", "n", "g">>],
       [name |-> "recording", kind |-> "eq", needs |-> "none",
        text |-> <<"!", "r", "e", "c", "o", "r", "d", "i", "n", "g">>],
       [name |-> "clearstate", kind |-> "eq", needs |-> "none",
        text |-> <<"!", "c", "l", "e", "a", "r", "s", "t", "a", "t", "e">>],
       [name |-> "jumpto", kind |-> "eq", needs |-> "none",
        text |-> <<"!", "j", "u", "m", "p", "t", "o">>],
       [name |-> "reaction", kind |-> "eq", needs |-> "none",
        text |-> <<"!", "r", "e", "a", "c", "t", "i", "o", "n">>],
       [name |-> "edit", kind |-> "eq", needs |-> "none",
        text |-> <<"!", "e", "d", "i", "t">>],
       [name |-> "updatelabels", kind |-> "eq", needs |-> "none",
        text |-> <<"!", "u", "p", "d", "a", "t", "e", "l", "a", "b", "e",
                   "l", "s">>],
       [name |-> "addlabels", kind |-> "eq", needs |-> "none",
        text |-> <<"!", "a", "d", "d", "l", "a", "b", "e", "l", "s">>],
       [name |-> "removelabels", kind |-> "eq", needs |-> "none",
        text |-> <<"!", "r", "e", "m", "o", "v", "e", "l", "a", "b", "e",
                   "l", "s">>] >>

\* the guard of a branch of the chain on the body b it is matched against
Guard(e, b, msg) ==
    /\ IF e.kind = "eq" THEN b = e.text ELSE StartsWith(b, e.text)
    /\ e.needs = "media" => msg.hasMedia
    /\ e.needs = "quoted" => msg.hasQuotedMsg

\* the first branch of the chain whose guard holds, 0 if none does
FirstBranch(b, msg) ==
    LET hits == {k \in 1..Len(Chain) : Guard(Chain[k], b, msg)}
    IN IF hits = {} THEN 0 ELSE CHOOSE k \in hits : \A j \in hits : k <= j

\* "Status was updated to *" + newStatus + "*"
StatusUpdated(newStatus) ==
    <<"Status was updated to *">> \o newStatus \o <<"*">>

\* the body of a branch.  clean: the variant of server2.ts, which sanitizes
\* the texts it passes on and skips the empty ones; the older variant passes
\* them on as they are.  The branches that work on the chat, the quoted
\* message or the labels are one call named after the branch.
BranchEffects(name, b, msg, clean) ==
    LET San(s) == IF clean THEN sanitizeMessage(Str(s)) ELSE s
        Passed(s) == ~clean \/ s # <<>>
        groupOnly == <<Effect("getChat", <<>>, <<>>)>>
                         \o (IF msg.isGroup THEN <<>>
                             ELSE <<Effect("reply", From, GroupOnly)>>)
    IN CASE name = "pingReply" -> <<Effect("reply", From, Pong)>>
         [] name = "ping" -> <<Effect("send", From, Pong)>>
         [] name = "sendto" ->
              LET number == Split(b, "SP")[2]
                  messageIndex == IndexOf(b, number) + Len(number)
                  message == San(Slice(b, messageIndex))
              IN <<Effect("getChat", <<>>, <<>>), Effect("sendSeen", <<>>, <<>>)>>
                     \o (IF Passed(message)
                         THEN <<Effect("send", PhoneNumber(number), message)>>
                         ELSE <<>>)
         [] name \in {"subject", "desc", "leave"} -> groupOnly
         [] name = "echo" ->
              LET echoText == San(Slice(b, 6))
              IN IF Passed(echoText)
                 THEN <<Effect("reply", From, echoText)>> ELSE <<>>
         [] name = "preview" ->
              LET text == San(Slice(b, 9))
              IN IF Passed(text)
                 THEN <<Effect("replyPreview", From, text)>> ELSE <<>>
         [] name = "status" ->
              LET newStatus == San(Split(b, "SP")[2])
              IN IF Passed(newStatus)
                 THEN <<Effect("setStatus", <<>>, newStatus),
                        Effect("reply", From, StatusUpdated(newStatus))>>
                 ELSE <<>>
         [] OTHER -> <<Effect(name, <<>>, <<>>)>>

\* runCommand; clean as above: the body is matched sanitized (server2.ts
\* line 564) or as it came (bas64.handler.ts)
runCommandIn(msg, clean) ==
    IF ~Truthy(msg.body) THEN [ran |-> <<>>, out |-> <<>>]
    ELSE LET b == IF clean THEN sanitizeMessage(msg.body) ELSE msg.body.val
             k == FirstBranch(b, msg)
         IN IF k = 0 THEN [ran |-> <<>>, out |-> <<>>]
            ELSE [ran |-> <<Chain[k].name>>,
                  out |-> BranchEffects(Chain[k].name, b, msg, clean)]

\* server2.ts lines 555-729
runCommand(msg) == runCommandIn(msg, TRUE)

\* bas64.handler.ts lines 689-862
runCommandOld(msg) == runCommandIn(msg, FALSE)

\* nothing was done for the message
Ignored == [handler |-> "ignored", prompt |-> Undef, ran |-> <<>>, out |-> <<>>]

\* the message went to the assistant handler
Assistant(prompt, out) ==
    [handler |-> "assistant", prompt |-> prompt, ran |-> <<>>, out |-> out]

\* the message went to runCommand, which returned r
Command(r) ==
    [handler |-> "command", prompt |-> Undef, ran |-> r.ran, out |-> r.out]

\* server2.ts lines 411-461: the assistant query and the reply to it
Query(msg) ==
    LET prompt == Join(Tail(Split(msg.body.val, "SP")), "SP")
        response == sanitizeMessage(Str(IF msg.assistant = "answer"
                                        THEN Answer ELSE <<"NUL">>))
        text == CASE msg.assistant = "down" -> AssistantDown
                  [] msg.assistant = "status" -> <<"Error: ">> \o StatusText
                  [] msg.assistant = "garbage" -> AnswerError
                  [] response # <<>> -> response
                  [] OTHER -> NoValidAnswer
    IN Assistant(Str(prompt), <<Effect("send", From, text)>>)

\* bas64.handler.ts lines 556-576: no try block, so that an exception ends
\* the handler without a reply
QueryOld(msg) ==
    LET prompt == Head(Split(msg.body.val, "SP"))
        out == CASE msg.assistant \in {"down", "garbage"} -> <<>>
                 [] msg.assistant = "status" ->
                      <<Effect("send", From, StatusText)>>
                 [] msg.assistant = "answer" -> <<Effect("send", From, Answer)>>
                 [] OTHER -> <<Effect("send", From, <<"NUL">>)>>
    IN Assistant(Str(prompt), out)

\* a handler that takes "/jarvis" anywhere in the body for the prefix:
\* C28_RoutingPartition does not hold of it
onMessageAnywhere(msg) ==
    IF ~Truthy(msg.body) THEN Ignored
    ELSE IF Includes(msg.body.val, Jarvis)
    THEN IF msg.hasMedia
         THEN Assistant(Undef, <<Effect("send", From, NoImages)>>)
         ELSE Query(msg)
    ELSE Command(runCommand(msg))

\* server2.ts lines 400-472: client.on("message")
onMessage(msg) ==
    IF ~Truthy(msg.body) THEN Ignored
    ELSE IF Head(Split(msg.body.val, "SP")) = Jarvis
    THEN IF msg.hasMedia
         THEN Assistant(Undef, <<Effect("send", From, NoImages)>>)
         ELSE Query(msg)
    ELSE Command(runCommand(msg))

\* bas64.handler.ts lines 544-586: client.on("message") of the older variant
onMessageOld(msg) ==
    IF ~Truthy(msg.body) THEN Ignored
    ELSE IF Head(Split(msg.body.val, "SP")) = Jarvis
    THEN IF msg.hasMedia
         THEN Assistant(Undef, <<Effect("send", From, NoImages)>>)
         ELSE QueryOld(msg)
    ELSE Command(runCommandOld(msg))

\* the bodies of inbound messages: no string, empty, assistant queries,
\* commands clean and with control characters, byte-order marks and
\* whitespace in and around them, and other texts
InboundBodies ==
    {Undef} \cup
    { Str(s) : s \in
        { <<>>,
          <<"/", "j", "a", "r", "v", "i", "s", "SP", "h", "o", "l", "a",
            "SP", "m", "u", "n", "d", "o", "SP", "h", "o", "y">>,
          <<"/", "j", "a", "r", "v", "i", "s">>,
          <<"/", "j", "a", "r", "v", "i", "s", "SP">>,
          <<"/", "j", "a", "r", "v", "i", "s", "SP", "SP", "a">>,
          <<"/", "j", "a", "r", "v", "i", "s", "x", "SP", "a">>,
          <<"SP", "/", "j", "a", "r", "v", "i", "s", "SP", "a">>,
          <<"NUL", "/", "j", "a", "r", "v", "i", "s", "SP", "a">>,
          <<"x", "SP", "/", "j", "a", "r", "v", "i", "s">>,
          <<"/", "j", "a", "r", "v", "i", "s", "SP", "!", "p", "i", "n", "g">>,
          <<"!", "p", "i", "n", "g">>,
          <<"!", "p", "i", "n", "g", "SP", "r", "e", "p", "l", "y">>,
          <<"SP", "!", "p", "i", "n", "g", "SP">>,
          <<"NUL", "!", "p", "i", "n", "g">>,
          <<"!", "p", "i", "NUL", "n", "g">>,
          <<"BOM", "!", "p", "i", "n", "g", "BOM">>,
          <<"!", "p", "i", "n", "g", "TAB", "r", "e", "p", "l", "y">>,
          <<"!", "p", "i", "n", "g", "SP", "NUL", "r", "e", "p", "l", "y">>,
          <<"!", "p", "i", "n", "g", "x">>,
          <<"!", "e", "c", "h", "o", "SP", "h", "i">>,
          <<"!", "e", "c", "h", "o", "SP", "NUL">>,
          <<"!", "e", "c", "h", "o", "SP", "SP", "h", "i", "SP">>,
          <<"BOM", "!", "e", "c", "h", "o", "SP", "h", "DEL", "i">>,
          <<"!", "e", "c", "h", "o", "SP", "/", "j", "a", "r", "v", "i", "s">>,
          <<"!", "p", "r", "e", "v", "i", "e", "w", "SP", "a">>,
          <<"!", "p", "r", "e", "v", "i", "e", "w", "SP", "BOM">>,
          <<"!", "s", "e", "n", "d", "t", "o", "SP", "1", "2", "3", "SP",
            "h", "i">>,
          <<"!", "s", "e", "n", "d", "t", "o", "SP", "1", "2", "3">>,
          <<"!", "s", "e", "n", "d", "t", "o", "SP", "1", "2", "3", "@", "c",
            ".", "u", "s", "SP", "h", "i", "NUL">>,
          <<"!", "s", "e", "n", "d", "t", "o", "SP", "t", "o">>,
          <<"!", "s", "e", "n", "d", "t", "o", "SP", "SP", "1", "SP", "h", "i">>,
          <<"NUL", "!", "s", "e", "n", "d", "t", "o", "SP", "1", "SP", "h",
            "i">>,
          <<"!", "s", "t", "a", "t", "u", "s", "SP", "o", "n", "SP", "n",
            "o", "w">>,
          <<"!", "s", "t", "a", "t", "u", "s", "SP", "NUL", "SP", "x">>,
          <<"!", "s", "u", "b", "j", "e", "c", "t", "SP", "s">>,
          <<"!", "d", "e", "s", "c", "SP", "d">>,
          <<"!", "l", "e", "a", "v", "e">>,
          <<"!", "m", "e", "d", "i", "a", "i", "n", "f", "o">>,
          <<"!", "q", "u", "o", "t", "e", "i", "n", "f", "o">>,
          <<"!", "e", "d", "i", "t">>,
          <<"!", "c", "h", "a", "t", "s">>,
          <<"h", "e", "l", "l", "o">>,
          <<"NUL">> } }

InboundMessages ==
    [body : InboundBodies, hasMedia : BOOLEAN, hasQuotedMsg : BOOLEAN,
     isGroup : BOOLEAN,
     assistant : {"answer", "blank", "garbage", "status", "down"}]

InitInbound ==
    /\ job = 1
    /\ clientInfo = TRUE
    /\ rabbitConnection = 0
    /\ rabbitChannel = 0
    /\ conns = <<>>
    /\ inits = <<>>
    /\ timers = 0
    /\ readyCount = 1
    /\ msgs = <<>>
    /\ active = {}
    /\ last = NoCallback
    /\ delivered = 0
    /\ call \in {[NoCall EXCEPT !.arg = m] : m \in InboundMessages}
    /\ shutdown = NoShutdown

\* the transport emits "message" with call.arg: server2.ts
ReceiveMessage ==
    /\ call.fn = "none"
    /\ call' = [call EXCEPT !.fn = "onMessage", !.ret = onMessage(call.arg)]
    /\ UNCHANGED program

\* the same in the older variant
ReceiveMessageOld ==
    /\ call.fn = "none"
    /\ call' = [call EXCEPT !.fn = "onMessageOld",
                            !.ret = onMessageOld(call.arg)]
    /\ UNCHANGED program

NextInbound ==
    \/ ReceiveMessage
    \/ ReceiveMessageOld

SpecInbound == InitInbound /\ [][NextInbound]_vars

(***************************************************************************)
(* Properties.                                                             *)
(***************************************************************************)
\* every call of the consumer callback the state knows of
Callbacks == active \cup (IF last.pc = "none" THEN {} ELSE {last})

\* the expanded recipient list of the job
JobRecipients == Recipients(JobPool[job].to)

\* the entries of results marked failed
FailedResults(cb) == {k \in 1..Len(cb.results) : ~cb.results[k].success}

\* the job fails for every recipient before any await: its text is empty
\* after sanitizing, or its base64 payload does not parse
FailsBeforeSend(messageData) ==
    \/ Mode(messageData) = "text" /\ sanitizeMessage(messageData.message) = <<>>
    \/ Mode(messageData) = "base64" /\ ~Base64Send(messageData, <<>>).ok

\* C1: the dispatcher returns exactly one result per recipient of the
\* expanded recipient list, the i-th result belongs to the i-th recipient
\* (as listed, or normalized with @c.us), whichever recipients succeed or
\* fail; while the loop runs the results are a prefix of that
C1_OneResultPerRecipient ==
    \A cb \in Callbacks :
        /\ Len(cb.results) <= Len(JobRecipients)
        /\ \A k \in 1..Len(cb.results) :
               cb.results[k].recipient
                   \in {JobRecipients[k], JobRecipients[k] \o CUs}
        /\ cb.pc \in {"send", "fetch", "delay"} =>
               Len(cb.results) = IF cb.pc = "delay" THEN cb.i ELSE cb.i - 1
        /\ cb.returned => Len(cb.results) = Len(JobRecipients)

\* the dispatcher returned two results, the first failed, the second not
C1_Witness ==
    /\ last.returned
    /\ Len(JobRecipients) = 2
    /\ Len(last.results) = 2
    /\ ~last.results[1].success
    /\ last.results[2].success

\* C2: per-recipient isolation.  When the dispatcher returns, the results
\* marked failed are exactly those of the recipients whose fetch or send
\* failed (all of them when the text is empty or the payload does not
\* parse), and every recipient was attempted: each one that did not fail has
\* its call of client.sendMessage.  With N recipients and one failing send,
\* N results and exactly one marked failed
C2_Isolation ==
    \A cb \in Callbacks :
        cb.returned =>
            /\ Len(cb.results) = Len(JobRecipients)
            /\ FailedResults(cb) =
                   IF FailsBeforeSend(JobPool[job])
                   THEN 1..Len(JobRecipients) ELSE cb.failedAt
            /\ Len(cb.sent) <= Len(JobRecipients)
            /\ Len(cb.sent) >= Len(JobRecipients) - Cardinality(FailedResults(cb))
            /\ \A k \in 1..Len(cb.sent) :
                   \E n \in 1..Len(JobRecipients) :
                       cb.sent[k].to = PhoneNumber(JobRecipients[n])

\* three recipients, the send to the second one failed and only that one:
\* three results, one marked failed, three calls of client.sendMessage
C2_Witness ==
    /\ last.returned
    /\ Len(JobRecipients) = 3
    /\ last.failedAt = {2}
    /\ FailedResults(last) = {2}
    /\ Len(last.sent) = 3

\* a finished call issued exactly the one decision `kind` to the broker
IssuedOnly(cb, kind) ==
    /\ cb.pc = "done"
    /\ Len(cb.issued) = 1
    /\ cb.issued[1].kind = kind
    /\ \A k \in 1..Len(cb.calls) : cb.calls[k] = kind

\* C3: if the dispatch of a validated job returns, with any mix of
\* per-recipient outcomes, the consumer acknowledges the queue message, and
\* calls neither nack with requeue nor nack without requeue
C3_ReturnedThenAck ==
    \A cb \in Callbacks : cb.returned => IssuedOnly(cb, "ack")

\* C4: a queue message whose content is not parseable JSON is rejected with
\* nack(requeue = false), is never requeued or acknowledged by the consumer,
\* and no transport send is made for it, whether client.info is set or not
C4_UnparseableDeadLettered ==
    \A cb \in Callbacks :
        ~JobPool[job].parseable => IssuedOnly(cb, "dead") /\ cb.sent = <<>>

\* C5: validation precedes the readiness gate: a parsed job without `to`, or
\* with none of message / base64Data / mediaUrl, is rejected with
\* nack(requeue = false) and without a transport send, also when client.info
\* is not set; it is never requeued
C5_InvalidDeadLettered ==
    \A cb \in Callbacks :
        JobPool[job].parseable /\ ~validateMessageData(JobPool[job]) =>
            IssuedOnly(cb, "dead") /\ cb.sent = <<>>

\* C6: the delivery of a valid job while client.info is not set ends with
\* nack(requeue = true) issued, no transport send, and neither an ack nor a
\* nack without requeue
C6_NotReadyRequeued ==
    [][ ( /\ delivered' = delivered + 1
          /\ ~clientInfo
          /\ JobPool[job].parseable
          /\ validateMessageData(JobPool[job]) )
        => IssuedOnly(last', "requeue") /\ last'.sent = <<>> ]_vars

\* the channels that have a consumer
Consuming == {c \in 1..Len(conns) :
                 conns[c].chan = "open" /\ (conns[c].cap > 0 \/ conns[c].unlimited)}

\* C7: at most one job is being dispatched at any time: never two calls of
\* the consumer callback between the receipt of their message and their
\* ack / nack, and never a second consuming channel beside the current one
C7_OneAtATime ==
    /\ Cardinality(active) <= 1
    /\ Cardinality(Consuming) <= 1

\* C8: every call of the consumer callback ends with exactly one decision
\* (ack, nack with requeue, nack without requeue) issued to the broker,
\* also when the connection closes while the job is being dispatched
C8_ExactlyOneDecision ==
    last.pc = "done" => Len(last.issued) = 1

\* how many of {message non-empty, mediaUrl present, base64Data present} hold
ContentCount(messageData) ==
    Cardinality({f \in {"message", "mediaUrl", "base64Data"} :
                    Truthy(messageData[f])})

\* the call ended before the dispatch, with no transport send
RejectedBeforeDispatch(cb) ==
    /\ cb.pc = "done"
    /\ cb.route = "dead"
    /\ ~cb.returned
    /\ ~cb.threw
    /\ cb.sent = <<>>

\* C9 as claimed: a job for which none or more than one of message,
\* mediaUrl, base64Data holds is rejected before dispatch and no transport
\* send is made for any of its recipients
C9_ExactlyOne ==
    \A cb \in Callbacks :
        JobPool[job].parseable /\ ContentCount(JobPool[job]) # 1 =>
            RejectedBeforeDispatch(cb)

\* C9, amended: a job is deliverable only if at least one of message,
\* mediaUrl, base64Data holds; a job for which none of them holds is
\* rejected before dispatch and no transport send is made for any of its
\* recipients
C9_AtLeastOne ==
    \A cb \in Callbacks :
        JobPool[job].parseable /\ ContentCount(JobPool[job]) = 0 =>
            RejectedBeforeDispatch(cb)

\* a job with a recipient and no content was delivered and rejected
C9_Witness ==
    /\ JobPool[job].parseable
    /\ ~ToFalsy(JobPool[job].to)
    /\ ContentCount(JobPool[job]) = 0
    /\ RejectedBeforeDispatch(last)

\* C10: if the dispatch throws, the consumer issues nack(requeue = false)
\* and neither acks nor requeues the message
C10_ThrowThenDeadLetter ==
    \A cb \in Callbacks : cb.threw => IssuedOnly(cb, "dead")

\* the base64 body of a payload: what follows the comma of a data URL
Base64Body(payload) ==
    LET parts == Split(payload, ",")
    IN IF Len(parts) = 2 THEN parts[2] ELSE payload

\* the job carries an encoded-media payload whose body is outside
\* [A-Za-z0-9+/]*={0,2}
BadAlphabet(messageData) ==
    /\ messageData.parseable
    /\ Truthy(messageData.base64Data)
    /\ ~base64Regex(Base64Body(messageData.base64Data.val))

\* C11: for a payload whose base64 body does not match [A-Za-z0-9+/]*={0,2}
\* parseBase64Image returns null without a call of Buffer.from, before or
\* after it, no media is sent, and in base64 mode every recipient is
\* recorded as failed with the parse error
C11_AlphabetBeforeDecode ==
    \A cb \in Callbacks :
        BadAlphabet(JobPool[job]) =>
            /\ ~parseBase64Image(JobPool[job].base64Data.val).ok
            /\ parseBase64Image(JobPool[job].base64Data.val).decodes = 0
            /\ Base64Send(JobPool[job], <<>>).decodes = 0
            /\ \A k \in 1..Len(cb.sent) : cb.sent[k].kind # "media"
            /\ Mode(JobPool[job]) = "base64" =>
                   /\ cb.returned
                   /\ cb.sent = <<>>
                   /\ \A k \in 1..Len(cb.results) :
                          /\ ~cb.results[k].success
                          /\ cb.results[k].error = "ParseFailed"

\* a data URL with a body outside the alphabet was dispatched to two
\* recipients
C11_Witness ==
    /\ BadAlphabet(JobPool[job])
    /\ Mode(JobPool[job]) = "base64"
    /\ Includes(JobPool[job].base64Data.val, <<",">>)
    /\ last.returned
    /\ Len(last.results) = 2

\* the job is of type base64 and its payload passes the alphabet test but
\* decodes to no byte
EmptyMedia(messageData) ==
    /\ messageData.parseable
    /\ messageData.type = "base64"
    /\ messageData.base64Data.def
    /\ base64Regex(Base64Body(messageData.base64Data.val))
    /\ DecodedLength(Base64Body(messageData.base64Data.val)) = 0

\* C12: for a job of type base64 whose base64Data is alphabet-valid but
\* decodes to zero bytes (the empty string, an empty body after a data-URL
\* header, padding only) nothing is sent to any recipient, neither media nor
\* text, and every result is the empty-media error
C12_EmptyMediaRejected ==
    \A cb \in Callbacks :
        EmptyMedia(JobPool[job]) =>
            /\ cb.sent = <<>>
            /\ \A k \in 1..Len(cb.results) :
                   /\ ~cb.results[k].success
                   /\ cb.results[k].error = "DecodeFailed"

\* C13: in text mode the body handed to client.sendMessage is the sanitized
\* message and is never empty; when the sanitized message is empty (message
\* absent, whitespace only, control characters only) every recipient is
\* recorded as failed with the empty-after-sanitization error and no send
\* is made
C13_TextBodySanitized ==
    \A cb \in Callbacks :
        LET messageData == JobPool[job]
            body == sanitizeMessage(messageData.message)
        IN messageData.parseable /\ Mode(messageData) = "text" =>
               /\ \A k \in 1..Len(cb.sent) :
                      /\ cb.sent[k].kind = "text"
                      /\ cb.sent[k].body = body
                      /\ cb.sent[k].body # <<>>
                      /\ cb.sent[k].body[1] \notin TrimChars \cup ControlChars
               /\ body = <<>> =>
                      /\ cb.sent = <<>>
                      /\ \A k \in 1..Len(cb.results) :
                             /\ ~cb.results[k].success
                             /\ cb.results[k].error = "EmptyAfterSanitization"
                      /\ cb.returned => Len(cb.results) = Len(JobRecipients)

\* a message of control characters only went to two recipients: two failed
\* results and no send
C13_Witness ==
    /\ Mode(JobPool[job]) = "text"
    /\ Truthy(JobPool[job].message)
    /\ \E k \in 1..Len(JobPool[job].message.val) :
           JobPool[job].message.val[k] \in ControlChars
    /\ last.returned
    /\ Len(last.results) = 2
    /\ last.sent = <<>>

\* caption, falling back to message, falling back to the empty string
CaptionSource(messageData) ==
    IF Truthy(messageData.caption) THEN messageData.caption
    ELSE IF Truthy(messageData.message) THEN messageData.message
    ELSE Str(<<>>)

\* C14: in base64 mode the options passed to client.sendMessage carry a
\* caption field if and only if sanitize(caption, else message, else "") is
\* not empty, and the caption is then that sanitized text
C14_CaptionIffNonEmpty ==
    \A cb \in Callbacks :
        LET messageData == JobPool[job]
            expected == sanitizeMessage(CaptionSource(messageData))
        IN messageData.parseable /\ Mode(messageData) = "base64" =>
               \A k \in 1..Len(cb.sent) :
                   /\ cb.sent[k].kind = "media"
                   /\ cb.sent[k].caption.def <=> expected # <<>>
                   /\ cb.sent[k].caption.def => cb.sent[k].caption.val = expected

\* a base64 job whose caption " c\0 " was sent as the caption "c"
C14_Witness ==
    /\ Mode(JobPool[job]) = "base64"
    /\ Truthy(JobPool[job].caption)
    /\ Len(last.sent) = 1
    /\ last.sent[1].caption.def
    /\ last.sent[1].caption.val = <<"c">>
    /\ JobPool[job].caption.val # <<"c">>

\* the results of the recipients whose fetch ended with response.ok
Fetched(cb) ==
    {k \in 1..Len(cb.results) :
        cb.results[k].error \notin {"FetchStatus", "FetchThrew"}}

\* C15: in media mode a fetch that ends with a non-success status gives a
\* failed result for that recipient, carrying the status, and no
\* client.sendMessage for it; the recipients after it are still processed,
\* each with its own fetch
C15_FetchFailureIsolated ==
    \A cb \in Callbacks :
        JobPool[job].parseable /\ Mode(JobPool[job]) = "media" =>
            /\ \A k \in 1..Len(cb.results) :
                   cb.results[k].error = "FetchStatus" =>
                       /\ ~cb.results[k].success
                       /\ cb.results[k].recipient = JobRecipients[k]
                       /\ k \in cb.failedAt
            /\ \A k \in 1..Len(cb.results) :
                   cb.results[k].error
                       \in {"none", "FetchStatus", "FetchThrew", "SendRejected"}
            /\ cb.pc = "fetch" => Len(cb.results) = cb.i - 1
            /\ cb.pc \in {"delay", "done"} => Len(cb.sent) = Cardinality(Fetched(cb))
            /\ cb.pc = "send" => Len(cb.sent) = Cardinality(Fetched(cb)) + 1
            /\ cb.returned => Len(cb.results) = Len(JobRecipients)

\* the fetch for the first of two recipients ended with an error status,
\* the second recipient was fetched and sent
C15_Witness ==
    /\ Mode(JobPool[job]) = "media"
    /\ last.returned
    /\ Len(last.results) = 2
    /\ last.results[1].error = "FetchStatus"
    /\ last.results[2].success
    /\ Len(last.sent) = 1
    /\ last.sent[1].to = PhoneNumber(JobRecipients[2])

\* C16: sanitizeMessage is idempotent: sanitizing what it returned returns
\* the same text
C16_Idempotent ==
    call.fn = "sanitizeMessage" =>
        sanitizeMessage(Str(call.ret)) = call.ret

\* a text with removed control characters, a byte-order mark, inner and
\* outer whitespace was sanitized to a text that differs from it
C16_Witness ==
    /\ call.fn = "sanitizeMessage"
    /\ call.arg.def
    /\ \E i, j, k \in 1..Len(call.arg.val) :
           /\ call.arg.val[i] \in ControlChars
           /\ call.arg.val[j] \in {"TAB", "LF", "SP"}
           /\ call.arg.val[k] = "a"
    /\ call.ret # <<>>
    /\ call.ret # call.arg.val

\* U+0000 to U+001F, as far as the model names them
C0Controls == {"NUL", "BS", "TAB", "LF", "VT", "FF", "CR", "ESC"}

\* U+007F to U+009F, as far as the model names them
C1Controls == {"DEL", "NEL"}

\* no leading and no trailing whitespace
Trimmed(s) == s = <<>> \/ (s[1] \notin TrimChars /\ s[Len(s)] \notin TrimChars)

\* C17 as claimed: the output of sanitizeMessage contains no C0 control
\* character at all, no character of U+007F to U+009F, no byte-order mark,
\* has no leading or trailing whitespace, and is the empty string for an
\* absent or non-string input
C17_NoControlAtAll ==
    call.fn = "sanitizeMessage" =>
        /\ \A k \in 1..Len(call.ret) :
               call.ret[k] \notin C0Controls \cup C1Controls \cup {BOM}
        /\ Trimmed(call.ret)
        /\ ~call.arg.def => call.ret = <<>>

\* C17, amended: the output of sanitizeMessage contains no C0 control
\* character other than TAB, LF and CR (which stay where they stand inside
\* the text), no character of U+007F to U+009F, no byte-order mark, has no
\* leading or trailing whitespace, and is the empty string for an absent or
\* non-string input
C17_NoControlButWhitespace ==
    call.fn = "sanitizeMessage" =>
        /\ \A k \in 1..Len(call.ret) :
               call.ret[k]
                   \notin (C0Controls \ {"TAB", "LF", "CR"}) \cup C1Controls
                              \cup {BOM}
        /\ Trimmed(call.ret)
        /\ ~call.arg.def => call.ret = <<>>

\* a text was sanitized and a TAB, LF or CR stays inside the output
C17_Witness ==
    /\ call.fn = "sanitizeMessage"
    /\ call.arg.def
    /\ Len(call.ret) = 3
    /\ call.ret[2] \in {"TAB", "LF", "CR"}

\* C18: getExtensionFromMimetype is a total lookup: a MIME type of the
\* table, in any case, maps to its extension, every other string (also
\* "constructor", "toString", "__proto__") maps to "bin", and what it
\* returns is always a string
C18_TotalLookup ==
    call.fn = "getExtensionFromMimetype" =>
        LET key == toLowerCase(call.arg.val)
        IN /\ call.ret.str
           /\ call.ret.val =
                  IF \E e \in mimetypeMap : e.key = key
                  THEN (CHOOSE e \in mimetypeMap : e.key = key).ext
                  ELSE <<"b", "i", "n">>

\* C19: reconnect is uniform: after the loss of an established broker
\* connection, the first and every later one, also of a connection that a
\* reconnect created, a new connection setup is on its way: whenever no
\* broker connection is left open, a 5-second timer is pending or
\* initRabbitMQ is running
C19_ReconnectAfterEveryLoss ==
    (Len(conns) > 0 /\ \A c \in 1..Len(conns) : ~conns[c].open)
        => (timers > 0 \/ inits # <<>>)

\* C20: on SIGINT the queue channel is closed, then the queue connection,
\* then the transport session is torn down, then the process exits, and the
\* process always reaches the exit: the handler is never ended by a close()
\* on a handle that is closed already (failures of the awaited operations
\* themselves set aside), and at the exit the steps done are the last ones
\* of channel, connection, transport, in that order
C20_ShutdownReachesExit ==
    /\ ~(shutdown.pc \in {"rejected", "crashed"} /\ shutdown.cause = "closed")
    /\ shutdown.pc = "exited" =>
           \A k \in 1..Len(shutdown.log) :
               shutdown.log[k] = <<"channel", "connection", "transport">>[
                                     k + 3 - Len(shutdown.log)]

\* C21: a dispatch that is in flight when SIGINT arrives runs to completion
\* before the queue channel is closed and before the process exits: once the
\* handler has closed the channel, or the process has exited, no callback
\* that waited at an await when SIGINT arrived is still waiting
C21_ShutdownDrains ==
    (shutdown.pc = "exited"
        \/ \E k \in 1..Len(shutdown.log) : shutdown.log[k] = "channel") =>
        \A cb \in active : <<cb.chan, cb.tag>> \notin shutdown.inflight

\* every broker connection is up
AllUp == \A c \in 1..Len(conns) : conns[c].open

\* message m was given back to the queue by a nack(requeue = true) of a
\* delivery that found the transport not ready
RequeuedNotReady(m) ==
    /\ last.msg = m
    /\ last.route = "requeue"
    /\ last.issued # <<>>
    /\ msgs[m].state = "ready"

\* the broker would deliver m again but for the bound on deliveries
OutOfDeliveries(m) == msgs[m].state = "ready" /\ delivered = MaxDeliveries

\* C22: under fairness, if the transport becomes ready and stays ready and
\* the broker connections stay up, every valid message that was requeued
\* because the transport was not ready is eventually acked or dead-lettered
C22_RequeuedEventuallySettled ==
    ([]AllUp /\ <>[]clientInfo) =>
        \A m \in 1..MaxMsgs :
            RequeuedNotReady(m) ~>
                (msgs[m].state \in {"acked", "dead"} \/ OutOfDeliveries(m))

\* s ends with suffix
EndsWith(s, suffix) ==
    /\ Len(s) >= Len(suffix)
    /\ SubSeq(s, Len(s) - Len(suffix) + 1, Len(s)) = suffix

\* C23: the address passed to the transport ends with "@c.us"; a recipient
\* that ends with the suffix already is used unchanged (the suffix is not
\* put twice), every other recipient gets the suffix appended
C23_AddressEndsWithSuffix ==
    call.fn = "phoneNumber" =>
        /\ EndsWith(call.ret, CUs)
        /\ EndsWith(call.arg.val, CUs) => call.ret = call.arg.val
        /\ ~EndsWith(call.arg.val, CUs) => call.ret = call.arg.val \o CUs

\* the call of the consumer callback that runs, or the one that ended last
Current == IF active # {} THEN CHOOSE cb \in active : TRUE ELSE last

\* where the loop of a call stands: recipient i is being fetched or sent
\* with the results of the i - 1 recipients before it collected, or the
\* delay after the successful send to recipient i runs
InLoop(cb) ==
    /\ cb.pc \in {"fetch", "send"} => Len(cb.results) = cb.i - 1
    /\ cb.pc = "delay" =>
           /\ Len(cb.results) = cb.i
           /\ cb.results[cb.i].success
    /\ Len(cb.sent) <= cb.i

\* a step of one call of the callback: a send starts only when the send
\* pending before it was rejected and every recipient before it has its
\* result; a success is followed by the delay, with no send
\* started and no return; a failure is followed by no delay; only the end
\* of the delay leaves the delay
LoopStep(cb, nx) ==
    /\ Len(nx.sent) > Len(cb.sent) =>
           /\ cb.pc = "send" => /\ Len(nx.results) > Len(cb.results)
                                /\ ~nx.results[cb.i].success
           /\ Len(nx.sent) = Len(cb.sent) + 1
           /\ nx.pc = "send"
           /\ Len(nx.results) = nx.i - 1
    /\ (Len(nx.results) > Len(cb.results)
            /\ nx.results[Len(cb.results) + 1].success) =>
           /\ nx.pc = "delay"
           /\ nx.sent = cb.sent
           /\ ~nx.returned
           /\ Len(nx.results) = Len(cb.results) + 1
    /\ (Len(nx.results) > Len(cb.results)
            /\ ~nx.results[Len(nx.results)].success) => nx.pc # "delay"
    /\ cb.pc = "delay" => nx.results = cb.results /\ nx.i = cb.i + 1

\* C24: within one job the recipients are processed one after the other: no
\* send starts while another is pending or before the results of the
\* recipients before it are collected; after a successful send the delay
\* runs before the next recipient and before the return; no delay runs
\* after a failed recipient
C24_SequentialWithDelay ==
    /\ [](\A cb \in Callbacks : InLoop(cb))
    /\ [][ (Current.msg = Current'.msg /\ Current.tag = Current'.tag
               /\ Current.chan = Current'.chan /\ Current.pc # "none")
           => LoopStep(Current, Current') ]_vars

\* a job for three recipients returned: the first send succeeded, the second
\* was rejected, the third succeeded
C24_Witness ==
    /\ last.returned
    /\ Len(last.results) = 3
    /\ last.results[1].success
    /\ ~last.results[2].success
    /\ last.results[3].success
    /\ Len(last.sent) = 3

Dispatched(cb) == cb.sent # <<>> \/ cb.results # <<>> \/ cb.pc = "fetch"

\* the mode a call shows: a fetch or its failure (media), a text send or
\* the refusal of an empty text (text), else a media send without a fetch
\* or the refusal of the encoded payload (base64)
ObservedMode(cb) ==
    IF \/ cb.pc = "fetch"
       \/ \E k \in 1..Len(cb.results) :
              cb.results[k].error \in {"FetchStatus", "FetchThrew"}
       \/ \E k \in 1..Len(cb.sent) :
              cb.sent[k].kind = "media" /\ cb.sent[k].mimetype = OctetStream
    THEN "media"
    ELSE IF \/ \E k \in 1..Len(cb.sent) : cb.sent[k].kind = "text"
            \/ \E k \in 1..Len(cb.results) :
                   cb.results[k].error = "EmptyAfterSanitization"
    THEN "text"
    ELSE "base64"

\* C26 as stated: the mode follows the payload alone, whatever the type
\* field says: media mode if and only if mediaUrl is present, base64 mode if
\* and only if base64Data is present, and never text with either of them
C26_ModeFollowsPayload ==
    \A cb \in Callbacks :
        Dispatched(cb) =>
            /\ ObservedMode(cb) = "media" <=> Truthy(JobPool[job].mediaUrl)
            /\ ObservedMode(cb) = "base64" <=> Truthy(JobPool[job].base64Data)
            /\ ObservedMode(cb) = "text" =>
                   /\ ~Truthy(JobPool[job].mediaUrl)
                   /\ ~Truthy(JobPool[job].base64Data)

\* C26 amended: the mode follows the type field and the payload together:
\* base64 mode if and only if type is "base64" and base64Data is present,
\* media mode if and only if type is "media" and mediaUrl is present, and
\* text in every other case
C26_ModeFollowsTypeAndPayload ==
    \A cb \in Callbacks :
        Dispatched(cb) =>
            /\ ObservedMode(cb) = "base64" <=>
                   (JobPool[job].type = "base64"
                       /\ Truthy(JobPool[job].base64Data))
            /\ ObservedMode(cb) = "media" <=>
                   (JobPool[job].type = "media"
                       /\ Truthy(JobPool[job].mediaUrl))

\* a job of type "text" that carries a mediaUrl and base64Data was sent as
\* a plain text
C26_Witness ==
    /\ JobPool[job].type = "text"
    /\ Truthy(JobPool[job].mediaUrl)
    /\ Truthy(JobPool[job].base64Data)
    /\ last.returned
    /\ Len(last.sent) = 1
    /\ last.sent[1].kind = "text"
    /\ ObservedMode(last) = "text"

\* the places of the commas of a payload
Commas(payload) == {k \in 1..Len(payload) : payload[k] = ","}

\* the part of a payload before its first comma, and the part after it
HeaderPart(payload) ==
    SubSeq(payload, 1, (CHOOSE k \in Commas(payload) :
                            \A j \in Commas(payload) : k <= j) - 1)

BodyPart(payload) ==
    SubSeq(payload, (CHOOSE k \in Commas(payload) :
                         \A j \in Commas(payload) : k <= j) + 1, Len(payload))

\* C27: a payload of the form header,body whose header matches
\* data:<mime>;base64 resolves to <mime> with the part after the comma as the
\* body; every other accepted payload resolves to image/jpeg; a payload of
\* the form header,body with a valid body is accepted whatever its header
C27_MimeResolution ==
    call.fn = "parseBase64Image" =>
        LET payload == call.arg.val
            withHeader == Cardinality(Commas(payload)) = 1
        IN /\ (call.ret.ok /\ withHeader
                  /\ MimeMatches(HeaderPart(payload)) # {}) =>
                   /\ call.ret.mimetype = MimeOfHeader(HeaderPart(payload))
                   /\ call.ret.data = BodyPart(payload)
           /\ (call.ret.ok /\ ~(withHeader
                                  /\ MimeMatches(HeaderPart(payload)) # {})) =>
                   /\ call.ret.mimetype = ImageJpeg
                   /\ call.ret.data = IF withHeader THEN BodyPart(payload)
                                      ELSE payload
           /\ (withHeader /\ isValidBase64(BodyPart(payload))) => call.ret.ok

\* the data URL of a PNG was resolved to image/png and the body after the
\* comma
C27_Witness ==
    /\ call.fn = "parseBase64Image"
    /\ call.arg.val = PngHeader \o <<",", "A", "A", "A", "A">>
    /\ call.ret.ok
    /\ call.ret.mimetype = <<"i", "m", "a", "g", "e", "/", "p", "n", "g">>
    /\ call.ret.data = <<"A", "A", "A", "A">>

\* the text before the first space of a body, and the text after it
FirstWord(body) ==
    IF IndexOf(body, <<"SP">>) = -1 THEN body
    ELSE SubSeq(body, 1, IndexOf(body, <<"SP">>))

Remainder(body) ==
    IF IndexOf(body, <<"SP">>) = -1 THEN <<>>
    ELSE Slice(body, IndexOf(body, <<"SP">>) + 1)

\* the branches of the chain whose guard holds of the sanitized body
Matching(msg) ==
    {k \in 1..Len(Chain) : Guard(Chain[k], sanitizeMessage(msg.body), msg)}

\* C28: a message with a non-empty string body goes to exactly one of the
\* assistant handler, when its first space-delimited token is "/jarvis", and
\* runCommand, in every other case; a message with an empty body or a body
\* that is no string is ignored, with no handler and no reply; runCommand
\* runs at most one branch, the only one whose guard holds
C28_RoutingPartition ==
    call.fn = "onMessage" =>
        LET msg == call.arg
            r == call.ret
        IN /\ ~Truthy(msg.body) => r = Ignored
           /\ Truthy(msg.body) =>
                  /\ r.handler \in {"assistant", "command"}
                  /\ r.handler = "assistant" <=> FirstWord(msg.body.val) = Jarvis
                  /\ r.handler = "assistant" =>
                         /\ r.ran = <<>>
                         /\ Len(r.out) = 1
                         /\ r.out[1].op = "send" /\ r.out[1].to = From
                  /\ r.handler = "command" =>
                         /\ ~r.prompt.def
                         /\ r.out # <<>> => r.ran # <<>>
                  /\ Len(r.ran) <= 1
                  /\ Cardinality(Matching(msg)) <= 1
                  /\ r.handler = "command" =>
                         r.ran = [k \in 1..Cardinality(Matching(msg)) |->
                                     Chain[CHOOSE j \in Matching(msg) : TRUE].name]

\* a command that carries "/jarvis" as its argument went to runCommand and
\* ran the branch of !echo
C28_Witness ==
    /\ call.fn = "onMessage"
    /\ Includes(call.arg.body.val, Jarvis)
    /\ call.ret.handler = "command"
    /\ call.ret.ran = <<"echo">>
    /\ call.ret.out = <<Effect("reply", From, Jarvis)>>

\* C29: the prompt posted to the backend is the whole remainder of the body
\* after the prefix, in the handler of server2.ts and in the older one alike
C29_PromptIsRemainder ==
    (call.fn \in {"onMessage", "onMessageOld"}
        /\ call.ret.handler = "assistant" /\ call.ret.prompt.def) =>
        call.ret.prompt.val = Remainder(call.arg.body.val)

\* the message with the body sanitized beforehand
CleanOf(msg) == [msg EXCEPT !.body = Str(sanitizeMessage(msg.body))]

\* the branches that pass a free text on, the call they pass it on with and
\* the text that follows the command (for !sendto, the recipient) in the
\* sanitized body b
ArgOp ==
    [sendto |-> "send", echo |-> "reply", preview |-> "replyPreview",
     status |-> "setStatus"]

FreeText(name, b) ==
    CASE name = "sendto" -> Slice(b, 8 + Len(Split(b, "SP")[2]))
      [] name = "echo" -> Slice(b, 6)
      [] name = "preview" -> Slice(b, 9)
      [] name = "status" -> Split(b, "SP")[2]

\* C30: runCommand matches the sanitized body, so that a body with removed
\* control characters, byte-order marks and whitespace around it runs the
\* branch of its clean text with the same calls; the free text that !sendto,
\* !echo, !preview and !status pass on is sanitized, and nothing is passed on
\* when it is empty
C30_CommandsOnSanitizedBody ==
    (call.fn = "onMessage" /\ call.ret.handler = "command") =>
        LET msg == call.arg
            r == call.ret
            b == sanitizeMessage(msg.body)
        IN /\ r.ran = runCommand(CleanOf(msg)).ran
           /\ r.out = runCommand(CleanOf(msg)).out
           /\ \A n \in DOMAIN ArgOp :
                  r.ran = <<n>> =>
                      LET text == sanitizeMessage(Str(FreeText(n, b)))
                          passed == {k \in 1..Len(r.out) : r.out[k].op = ArgOp[n]}
                      IN /\ text = <<>> => passed = {}
                         /\ text # <<>> =>
                                /\ Cardinality(passed) = 1
                                /\ \A k \in passed : r.out[k].text = text

(***************************************************************************)
(* C31: the queue consumer is started only after the transport has become  *)
(* ready: as long as no "ready" event has occurred, no call of             *)
(* initRabbitMQ runs or is scheduled, no connection to the broker was      *)
(* attempted, the module handles are null and no message was delivered to  *)
(* a consumer callback.                                                    *)
(***************************************************************************)
C31_ConsumerOnlyAfterReady ==
    readyCount = 0 =>
        /\ inits = <<>>
        /\ timers = 0
        /\ conns = <<>>
        /\ rabbitConnection = 0
        /\ rabbitChannel = 0
        /\ delivered = 0
        /\ active = {}
        /\ \A m \in DOMAIN msgs : msgs[m].state = "ready"

\* after "ready" the consumer was started and a message was consumed
C31_Witness ==
    /\ readyCount = 1
    /\ delivered = 1
    /\ \E c \in 1..Len(conns) : conns[c].cap > 0

(***************************************************************************)
(* C32: the ack or nack for a message is always issued on the channel that *)
(* delivered it, also when the connection was lost and made anew while the *)
(* job was being dispatched; and the "close" event of an old connection    *)
(* never nulls the module handles while they name a newer connection that  *)
(* is open.                                                                *)
(***************************************************************************)
\* every ack / nack frame callback cb wrote went to the channel that
\* delivered its message
IssuedOnOwnChannel(cb) ==
    \A k \in 1..Len(cb.issued) : cb.issued[k].chan = cb.chan

\* the handles name an open connection, it stays open, and they are nulled
NewerHandlesNulled ==
    /\ rabbitConnection # 0
    /\ conns[rabbitConnection].open
    /\ conns'[rabbitConnection].open
    /\ rabbitConnection' = 0

C32_AckOnDeliveringChannel ==
    /\ [](\A cb \in Callbacks : IssuedOnOwnChannel(cb))
    /\ [][~NewerHandlesNulled]_vars

(***************************************************************************)
(* C33: a message that ends in DeadLetter has had no transport send made   *)
(* for it in that delivery: the callback takes a path to nack without      *)
(* requeue (JSON parse failure, validation failure, exception thrown by    *)
(* the dispatch, exception thrown by the ack call) only when it has sent   *)
(* to no recipient.                                                        *)
(***************************************************************************)
\* the recipients callback cb has sent to
SentTo(cb) == {k \in 1..Len(cb.results) : cb.results[k].success}

\* callback cb reached rabbitChannel?.nack(msg, false, false)
DeadLetterPath(cb) ==
    \/ cb.route = "dead"
    \/ \E k \in 1..Len(cb.calls) : cb.calls[k] = "dead"

C33_DeadLetterImpliesNoSend ==
    \A cb \in Callbacks : DeadLetterPath(cb) => SentTo(cb) = {}

(***************************************************************************)
(* C34: in base64 mode the media object sent is consistent: whenever the   *)
(* filename is derived (the job has no filename), its extension is the     *)
(* table extension of the MIME type the media object is sent with, also    *)
(* when the job's mimetype overrides the type detected from the payload.   *)
(***************************************************************************)
\* the media objects callback cb sent in base64 mode with a derived filename
DerivedSends(cb) ==
    {k \in 1..Len(cb.sent) :
        /\ Mode(JobPool[job]) = "base64"
        /\ cb.sent[k].kind = "media"
        /\ ~Truthy(JobPool[job].filename)}

C34_DerivedExtensionOfSentType ==
    \A cb \in Callbacks : \A k \in DerivedSends(cb) :
        cb.sent[k].filename =
            DerivedFilename(getExtensionFromMimetype(cb.sent[k].mimetype))

=============================================================================
